---- MODULE Spec2Model ----
(***************************************************************************)
(* Migration metrics: the metrics schema (schema.py), the live collector   *)
(* (collector.py), the aggregate store (database.py), the line counters    *)
(* of runner.py (Rust, Go, Java, Python, measure_loc), the code-metrics    *)
(* blocks the analyzer fills (analyzer.py) and the checkpoint manager      *)
(* (checkpoint.py).                                                        *)
(*                                                                         *)
(* Conventions                                                             *)
(*   - a dataclass instance and the dict asdict() makes of it are both a   *)
(*     TLA+ record (a function from field names to values);                *)
(*   - Python None is the empty tuple and a present Optional value v is    *)
(*     the one-element tuple <<v>>;                                        *)
(*   - a Python dict with string keys is a function whose DOMAIN is the    *)
(*     set of its keys;                                                    *)
(*   - time.time() and datetime.now() read the variable now, which counts  *)
(*     clock units of 1/UnitsPerMs millisecond; an ISO-8601 timestamp is   *)
(*     the clock reading it denotes;                                       *)
(*   - money (float USD) is counted in whole units; a float quotient is    *)
(*     kept exact, as a numerator and a denominator.                       *)
(***************************************************************************)
EXTENDS Integers, Sequences, FiniteSets, TLC

VARIABLES
    now,                 \* the wall clock, in clock units
    identity,            \* MetricsCollector.identity
    timing,              \* MetricsCollector.timing
    cost,                \* MetricsCollector.cost
    tokens,              \* MetricsCollector.tokens
    agent,               \* MetricsCollector.agent
    outcome,             \* MetricsCollector.outcome
    phase_start_times,   \* MetricsCollector._phase_start_times
    module_start_times,  \* MetricsCollector._module_start_times
    module_attempts,     \* MetricsCollector._module_attempts
    start_time,          \* MetricsCollector._start_time
    message_count,       \* MetricsCollector._message_count
    returned,            \* the MigrationMetrics objects finalize() has returned
    hist,                \* history: what was called, and what finalize() returned
    last,                \* history: the most recent call and its arguments
    table,               \* the rows of the migrations table
    db_last,             \* history: run id -> the record of the latest insert
    rt,                  \* the serialisation round trip under way
    derived,             \* the derived properties read off one record
    db_call,             \* the store's latest read call and what it returned
    scan,                \* _count_rust_test_loc: the loop over one file's lines
    fscan,               \* the Go, Java and Python counters: the loop over one file
    measure,             \* measure_loc: the call under way
    blocks,              \* the code-metrics blocks of one Run Record
    dbfile,              \* the database file: its schema and the stores being opened
    ckpt,                \* CheckpointManager: the state file and the latest call
    reader               \* the aggregate() or group_by() call under way

vars == <<now, identity, timing, cost, tokens, agent, outcome,
          phase_start_times, module_start_times, module_attempts,
          start_time, message_count, returned, hist, last,
          table, db_last, rt, derived, db_call, scan,
          fscan, measure, blocks, dbfile, ckpt, reader>>

collectorVars == <<now, identity, timing, cost, tokens, agent, outcome,
                   phase_start_times, module_start_times, module_attempts,
                   start_time, message_count, returned, hist>>

storeVars == <<table, db_last>>

auxVars == <<derived, db_call, scan>>

toolVars == <<fscan, measure, blocks, dbfile, ckpt, reader>>

----------------------------------------------------------------------------
(* Bounds of the model *)

MaxSteps == 3
MaxClock == 3
MaxFinalize == 2
MaxRows == 3
MaxLimit == 2
MaxLines == 5
MaxFileLines == 4
MaxFiles == 2
MaxOpens == 3
MaxSaves == 5
MaxLogLines == 2
MaxTokens == 3
MaxCases == 3

(* One millisecond is UnitsPerMs clock units: time.time() is finer than the *)
(* millisecond the durations are stored in.                                 *)
UnitsPerMs == 2

----------------------------------------------------------------------------
(* Python values *)

None == <<>>
Some(v) == <<v>>
EmptyDict == [k \in {} |-> 0]

\* d[k] = v on a dict
Put(d, k, v) == [x \in (DOMAIN d) \cup {k} |-> IF x = k THEN v ELSE d[x]]

\* d.get(k, default)
Get(d, k, default) == IF k \in DOMAIN d THEN d[k] ELSE default

\* a / b as an exact quotient
Ratio(a, b) == [num |-> a, den |-> b]

\* two exact quotients denote the same number (denominators positive)
RatioEq(x, y) == x.num * y.den = y.num * x.den

\* int(x) of a non-negative or negative quotient n / d, d > 0: truncation
\* toward zero
IntTrunc(n, d) == IF n >= 0 THEN n \div d ELSE -((-n) \div d)

----------------------------------------------------------------------------
(* schema.py: the dataclasses, with their defaults *)

SCHEMA_VERSION == "1.0.0"

\* IdentityMetrics(run_id, project_name, ..., started_at): the six fields
\* without a default are required, the four Optional ones default to None
IdentityRequired ==
    {"run_id", "project_name", "source_language", "target_language",
     "strategy", "started_at"}

IdentityDefaults ==
    [completed_at |-> None, host_platform |-> None, sdk_version |-> None,
     model_id |-> None]

\* IdentityMetrics.create: a generated run id and the current timestamp
IdentityCreate(run_id, project_name, source_language, target_language, strategy, clock) ==
    [run_id |-> run_id, project_name |-> project_name,
     source_language |-> source_language,
     target_language |-> target_language, strategy |-> strategy,
     started_at |-> clock, completed_at |-> None, host_platform |-> None,
     sdk_version |-> None, model_id |-> None]

ModuleTimingRequired == {"module_name", "duration_ms"}
ModuleTimingDefaults == [attempts |-> 1]

ModuleTiming(module_name, duration_ms, attempts) ==
    [module_name |-> module_name, duration_ms |-> duration_ms,
     attempts |-> attempts]

TimingMetrics ==
    [wall_clock_duration_ms |-> 0, api_duration_ms |-> 0,
     phase_durations_ms |-> EmptyDict, module_durations |-> <<>>]

CostMetrics ==
    [total_cost_usd |-> 0, input_tokens_cost_usd |-> 0,
     output_tokens_cost_usd |-> 0, cache_creation_cost_usd |-> 0]

TokenMetrics ==
    [input_tokens |-> 0, output_tokens |-> 0,
     cache_creation_input_tokens |-> 0, cache_read_input_tokens |-> 0]

AgentMetrics ==
    [total_turns |-> 0, total_messages |-> 0,
     subagent_invocations |-> EmptyDict, tool_invocations |-> EmptyDict,
     error_recovery_events |-> 0, retry_count |-> 0]

CodeMetrics ==
    [production_loc |-> 0, test_loc |-> 0, total_loc |-> 0,
     module_count |-> 0, function_count |-> 0,
     avg_cyclomatic_complexity |-> 0, max_cyclomatic_complexity |-> 0,
     external_dependencies |-> 0, maintainability_index |-> None]

CompilationResult ==
    [passed |-> FALSE, error_count |-> 0, warning_count |-> 0]

LintingResult ==
    [passed |-> FALSE, tool |-> "", error_count |-> 0, warning_count |-> 0]

FormattingResult == [passed |-> FALSE, tool |-> ""]

TestResult ==
    [passed |-> FALSE, total |-> 0, passed_count |-> 0, failed_count |-> 0,
     skipped_count |-> 0]

CoverageResult ==
    [line_coverage_pct |-> None, function_coverage_pct |-> None,
     branch_coverage_pct |-> None]

QualityGates ==
    [compilation |-> CompilationResult, linting |-> LintingResult,
     formatting |-> FormattingResult, unit_tests |-> TestResult,
     coverage |-> CoverageResult]

FeatureResultRequired == {"feature", "test_count", "passed", "status"}

IOContractMetrics ==
    [total_test_cases |-> 0, passed |-> 0, failed |-> 0, unsupported |-> 0,
     feature_results |-> <<>>]

OutcomeMetrics ==
    [status |-> "failure", modules_completed |-> 0, modules_total |-> 0,
     blocking_issues |-> <<>>, notes |-> None]

\* MigrationMetrics(identity=..., timing=..., ...): every block but the
\* identity has a default factory
MigrationMetrics(id, tm, co, tk, ag, sm, tgm, qg, io, oc) ==
    [identity |-> id, timing |-> tm, cost |-> co, tokens |-> tk,
     agent |-> ag, source_metrics |-> sm, target_metrics |-> tgm,
     quality_gates |-> qg, io_contract |-> io, outcome |-> oc,
     schema_version |-> SCHEMA_VERSION]

----------------------------------------------------------------------------
(* schema.py: the derived properties *)

\* the cache reads over the fresh input tokens alone
cache_efficiency_ratio_of_fresh(tk) ==
    IF tk.input_tokens = 0 THEN Ratio(0, 1)
    ELSE Ratio(tk.cache_read_input_tokens, tk.input_tokens)

\* TokenMetrics.cache_efficiency_ratio
cache_efficiency_ratio(tk) ==
    LET total == tk.cache_read_input_tokens + tk.input_tokens
    IN  IF total = 0 THEN Ratio(0, 1)
        ELSE Ratio(tk.cache_read_input_tokens, total)

\* the passed cases as a fraction of the total, not as a percentage
match_rate_fraction(io) ==
    IF io.total_test_cases = 0 THEN Ratio(0, 1)
    ELSE Ratio(io.passed, io.total_test_cases)

\* IOContractMetrics.match_rate_pct
match_rate_pct(io) ==
    IF io.total_test_cases = 0 THEN Ratio(0, 1)
    ELSE Ratio(io.passed * 100, io.total_test_cases)

\* MigrationMetrics.loc_expansion_ratio
loc_expansion_ratio(m) ==
    IF m.source_metrics.production_loc = 0 THEN Ratio(0, 1)
    ELSE Ratio(m.target_metrics.production_loc,
               m.source_metrics.production_loc)

\* MigrationMetrics.cost_per_loc
cost_per_loc(m) ==
    IF m.source_metrics.production_loc = 0 THEN Ratio(0, 1)
    ELSE Ratio(m.cost.total_cost_usd, m.source_metrics.production_loc)

----------------------------------------------------------------------------
(* schema.py: serialisation *)

\* json: Python None is written as null and read back as None; numbers,
\* strings, booleans, lists and string-keyed dicts keep their value
JNull == [t |-> "null"]
JVal(v) == [t |-> "val", v |-> v]
json_opt(o) == IF o = None THEN JNull ELSE JVal(o[1])
py_opt(j) == IF j.t = "null" THEN None ELSE Some(j.v)

IdentityOptional ==
    {"completed_at", "host_platform", "sdk_version", "model_id"}
CodeOptional == {"maintainability_index"}
CoverageOptional ==
    {"line_coverage_pct", "function_coverage_pct", "branch_coverage_pct"}
OutcomeOptional == {"notes"}

\* the Optional fields of one (sub-)dict
OptionalKeys(path) ==
    CASE path = "identity" -> IdentityOptional
      [] path \in {"source_metrics", "target_metrics"} -> CodeOptional
      [] path = "coverage" -> CoverageOptional
      [] path = "outcome" -> OutcomeOptional
      [] OTHER -> {}

dumps_block(path, d) ==
    [k \in DOMAIN d |->
        IF k \in OptionalKeys(path) THEN json_opt(d[k]) ELSE d[k]]

loads_block(path, d) ==
    [k \in DOMAIN d |->
        IF k \in OptionalKeys(path) THEN py_opt(d[k]) ELSE d[k]]

\* json.dumps(data, indent=indent): the document of a to_dict() result
json_dumps(data) ==
    [k \in DOMAIN data |->
        CASE k \in {"identity", "source_metrics", "target_metrics", "outcome"}
               -> dumps_block(k, data[k])
          [] k = "quality_gates"
               -> [g \in DOMAIN data[k] |->
                     IF g = "coverage" THEN dumps_block(g, data[k][g])
                     ELSE data[k][g]]
          [] OTHER -> data[k]]

\* json.loads(json_str)
json_loads(doc) ==
    [k \in DOMAIN doc |->
        CASE k \in {"identity", "source_metrics", "target_metrics", "outcome"}
               -> loads_block(k, doc[k])
          [] k = "quality_gates"
               -> [g \in DOMAIN doc[k] |->
                     IF g = "coverage" THEN loads_block(g, doc[k][g])
                     ELSE doc[k][g]]
          [] OTHER -> doc[k]]

\* asdict(self) alone: the fields of the dataclasses, no computed property
to_dict_asdict(m) == m

\* MigrationMetrics.to_dict: asdict(self) plus the four computed properties
to_dict(m) ==
    LET data == m
        d1 == Put(data, "loc_expansion_ratio", loc_expansion_ratio(m))
        d2 == Put(d1, "cost_per_loc", cost_per_loc(m))
        d3 == Put(d2, "tokens",
                  Put(data.tokens, "cache_efficiency_ratio",
                      cache_efficiency_ratio(m.tokens)))
        d4 == Put(d3, "io_contract",
                  Put(data.io_contract, "match_rate_pct",
                      match_rate_pct(m.io_contract)))
    IN  d4

\* MigrationMetrics.to_json
to_json(m) == json_dumps(to_dict(m))

\* what a raised TypeError / KeyError leaves in place of a value
TypeError == [error |-> "TypeError"]
KeyError == [error |-> "KeyError"]
Raised(v) == "error" \in DOMAIN v

\* Cls(**kw) of a dataclass: an unexpected keyword or a missing required
\* field raises TypeError, a missing defaulted field takes its default
Construct(required, defaults, kw) ==
    IF \/ ~((DOMAIN kw) \subseteq (required \cup DOMAIN defaults))
       \/ ~(required \subseteq DOMAIN kw)
    THEN TypeError
    ELSE [k \in required \cup DOMAIN defaults |->
            IF k \in DOMAIN kw THEN kw[k] ELSE defaults[k]]

ConstructAll(required, defaults, kws) ==
    [i \in 1..Len(kws) |-> Construct(required, defaults, kws[i])]

AnyRaised(seq) == \E i \in 1..Len(seq) : Raised(seq[i])

\* the exception that ends a function building its blocks in this order: the
\* one the first failing block raises
FirstRaised(seq) ==
    seq[CHOOSE i \in 1..Len(seq) :
            /\ Raised(seq[i])
            /\ \A j \in 1..(i - 1) : ~Raised(seq[j])]

\* from_dict, the TimingMetrics block: named keys with defaults
from_dict_timing(data) ==
    IF "timing" \notin DOMAIN data THEN KeyError
    ELSE LET t == data["timing"]
             mods == ConstructAll(ModuleTimingRequired, ModuleTimingDefaults,
                                  Get(t, "module_durations", <<>>))
         IN  IF AnyRaised(mods) THEN TypeError
             ELSE [wall_clock_duration_ms |->
                       Get(t, "wall_clock_duration_ms", 0),
                   api_duration_ms |-> Get(t, "api_duration_ms", 0),
                   phase_durations_ms |->
                       Get(t, "phase_durations_ms", EmptyDict),
                   module_durations |-> mods]

\* TokenMetrics(**data["tokens"]): every key of the dict is passed on
from_dict_tokens_kwargs(data) ==
    Construct({}, TokenMetrics, Get(data, "tokens", EmptyDict))

\* from_dict, the TokenMetrics block: the four counters by name, so the
\* cache_efficiency_ratio key to_dict added is not passed on
from_dict_tokens(data) ==
    IF "tokens" \notin DOMAIN data THEN KeyError
    ELSE LET t == data["tokens"]
         IN  [input_tokens |-> Get(t, "input_tokens", 0),
              output_tokens |-> Get(t, "output_tokens", 0),
              cache_creation_input_tokens |->
                  Get(t, "cache_creation_input_tokens", 0),
              cache_read_input_tokens |->
                  Get(t, "cache_read_input_tokens", 0)]

\* from_dict, the QualityGates block
from_dict_quality_gates(data) ==
    LET qg == Get(data, "quality_gates", EmptyDict)
    IN  [compilation |->
             Construct({}, CompilationResult, Get(qg, "compilation", EmptyDict)),
         linting |->
             Construct({}, LintingResult, Get(qg, "linting", EmptyDict)),
         formatting |->
             Construct({}, FormattingResult, Get(qg, "formatting", EmptyDict)),
         unit_tests |->
             Construct({}, TestResult, Get(qg, "unit_tests", EmptyDict)),
         coverage |->
             Construct({}, CoverageResult, Get(qg, "coverage", EmptyDict))]

\* from_dict, the IOContractMetrics block: named keys, so match_rate_pct is
\* not passed on
from_dict_io_contract(data) ==
    LET io == Get(data, "io_contract", EmptyDict)
        feats == ConstructAll(FeatureResultRequired, EmptyDict,
                              Get(io, "feature_results", <<>>))
    IN  IF AnyRaised(feats) THEN TypeError
        ELSE [total_test_cases |-> Get(io, "total_test_cases", 0),
              passed |-> Get(io, "passed", 0),
              failed |-> Get(io, "failed", 0),
              unsupported |-> Get(io, "unsupported", 0),
              feature_results |-> feats]

\* MigrationMetrics.from_dict: the blocks are built in the order of the
\* code, and the first exception (KeyError for a missing identity, timing or
\* tokens key, TypeError from a dataclass constructor) ends the call
from_dict(data) ==
    LET id == IF "identity" \notin DOMAIN data THEN KeyError
              ELSE Construct(IdentityRequired, IdentityDefaults,
                             data["identity"])
        tm == from_dict_timing(data)
        co == Construct({}, CostMetrics, Get(data, "cost", EmptyDict))
        tk == from_dict_tokens(data)
        ag == Construct({}, AgentMetrics, Get(data, "agent", EmptyDict))
        sm == Construct({}, CodeMetrics,
                        Get(data, "source_metrics", EmptyDict))
        tgm == Construct({}, CodeMetrics,
                         Get(data, "target_metrics", EmptyDict))
        qg == from_dict_quality_gates(data)
        io == from_dict_io_contract(data)
        oc == Construct({}, OutcomeMetrics, Get(data, "outcome", EmptyDict))
        built == <<id, tm, co, tk, ag, sm, tgm, qg.compilation, qg.linting,
                   qg.formatting, qg.unit_tests, qg.coverage, io, oc>>
    IN  IF AnyRaised(built) THEN FirstRaised(built)
        ELSE [identity |-> id, timing |-> tm, cost |-> co, tokens |-> tk,
              agent |-> ag, source_metrics |-> sm, target_metrics |-> tgm,
              quality_gates |-> qg, io_contract |-> io, outcome |-> oc,
              schema_version |->
                  Get(data, "schema_version", SCHEMA_VERSION)]

\* MigrationMetrics.from_json
from_json(json_str) == from_dict(json_loads(json_str))

----------------------------------------------------------------------------
(* collector.py: MetricsCollector *)

Phases == {"setup", "reporting"}
Modules == {"lexer"}
Tools == {"Bash", "Read"}
AgentTypes == {"migrator"}

\* the attempts argument of end_module: omitted (None), 0, or a real count
AttemptArgs == {None, Some(0), Some(2)}

\* The result payloads record_result is given.  kind: an object with
\* attributes, a dict, or neither; attrs: the scalar keys that are present;
\* subtype: present or not; usage: missing, a dict, or present and no dict.
AttrNone == EmptyDict
AttrAll ==
    [duration_ms |-> 5, duration_api_ms |-> 6, total_cost_usd |-> 2,
     num_turns |-> 10]
AttrSome == [duration_ms |-> 0, num_turns |-> 3]

UsageMissing == [kind |-> "missing", d |-> EmptyDict]
UsageDict(d) == [kind |-> "dict", d |-> d]
UsageNotDict == [kind |-> "notdict", d |-> EmptyDict]

UsageAll ==
    UsageDict([input_tokens |-> 100, output_tokens |-> 50,
               cache_creation_input_tokens |-> 10,
               cache_read_input_tokens |-> 20])
UsageSome == UsageDict([output_tokens |-> 7])

Payload(kind, attrs, subtype, usage) ==
    [kind |-> kind, attrs |-> attrs, subtype |-> subtype, usage |-> usage]

Payloads ==
    {Payload("dict", AttrNone, None, UsageMissing),
     Payload("dict", AttrAll, Some("success"), UsageAll),
     Payload("dict", AttrSome, Some("error"), UsageSome),
     Payload("dict", AttrAll, None, UsageSome),
     Payload("dict", AttrSome, Some("success"), UsageMissing),
     Payload("dict", AttrNone, Some("success"), UsageNotDict),
     Payload("object", AttrNone, None, UsageMissing),
     Payload("object", AttrAll, Some("success"), UsageAll),
     Payload("object", AttrSome, Some("error"), UsageSome),
     Payload("object", AttrNone, Some("success"), UsageNotDict),
     Payload("other", AttrNone, None, UsageMissing)}

\* the arguments of set_outcome
OutcomeArgs ==
    {[status |-> "partial", modules_completed |-> 3, modules_total |-> 5,
      blocking_issues |-> Some(<<"Type error in parser">>),
      notes |-> Some("Migration partially complete")],
     [status |-> "success", modules_completed |-> 0, modules_total |-> 0,
      blocking_issues |-> None, notes |-> None]}

\* the blocks of a MigrationMetrics object
MetricsBlocks ==
    {"identity", "timing", "cost", "tokens", "agent", "source_metrics",
     "target_metrics", "quality_gates", "io_contract", "outcome",
     "schema_version"}

\* the collector's own block objects
Heap ==
    [identity |-> identity, timing |-> timing, cost |-> cost,
     tokens |-> tokens, agent |-> agent, outcome |-> outcome]

\* A MigrationMetrics object: refs are the blocks that are the collector's
\* own objects (passed by reference), own holds the blocks the object has
\* to itself.
Value(obj) ==
    [b \in MetricsBlocks |-> IF b \in obj.refs THEN Heap[b] ELSE obj.own[b]]

\* the same object read in the next state
ValueNext(obj) ==
    [b \in MetricsBlocks |->
        IF b \in obj.refs
        THEN [identity |-> identity', timing |-> timing', cost |-> cost',
              tokens |-> tokens', agent |-> agent', outcome |-> outcome'][b]
        ELSE obj.own[b]]

\* round(...) in place of int(...): half a millisecond and more rounds up
duration_ms_rounded(start, clock) ==
    (2 * (clock - start) + UnitsPerMs) \div (2 * UnitsPerMs)

\* int((time.time() - start) * 1000)
duration_ms_since(start, clock) == IntTrunc(clock - start, UnitsPerMs)

\* Python's `a or b` on an Optional[int] a: None and 0 are falsy
PyOr(a, b) == IF a = None \/ a[1] = 0 THEN b ELSE a[1]

\* Python's `a or []` on an Optional[list] a
PyOrList(a) == IF a = None \/ a[1] = <<>> THEN <<>> ELSE a[1]

Called(op, name, arg) ==
    last' = [op |-> op, name |-> name, arg |-> arg, raised |-> FALSE]

Step == hist.steps < MaxSteps

\* MetricsCollector.__init__
CollectorInit ==
    /\ now = 0
    /\ identity = IdentityCreate("run-1", "rpn2tex", "python", "rust",
                                 "module-by-module", 0)
    /\ timing = TimingMetrics
    /\ cost = CostMetrics
    /\ tokens = TokenMetrics
    /\ agent = AgentMetrics
    /\ outcome = OutcomeMetrics
    /\ phase_start_times = EmptyDict
    /\ module_start_times = EmptyDict
    /\ module_attempts = EmptyDict
    /\ start_time = 0
    /\ message_count = 0
    /\ returned = <<>>
    /\ hist = [steps |-> 0,
               tool_calls |-> [t \in Tools |-> 0],
               subagent_calls |-> [a \in AgentTypes |-> 0],
               message_calls |-> 0,
               retry_calls |-> 0,
               recovery_calls |-> 0,
               module_starts |-> [m \in Modules |-> 0],
               phase_end |-> EmptyDict,
               supplied |-> None,
               snaps |-> <<>>,
               messages_before |-> <<>>,
               run |-> 0]
    /\ last = [op |-> "init", name |-> "", arg |-> None, raised |-> FALSE]

\* the passing of time between two calls
Tick ==
    /\ now < MaxClock
    /\ now' = now + 1
    /\ UNCHANGED <<identity, timing, cost, tokens, agent, outcome,
                   phase_start_times, module_start_times, module_attempts,
                   start_time, message_count, returned, hist, last,
                   table, db_last, rt, auxVars, toolVars>>

\* every call but finalize ends a run of consecutive finalize calls
Event(h) == [h EXCEPT !.steps = @ + 1, !.run = 0]

\* MetricsCollector.start_phase
StartPhase(phase_name) ==
    /\ Step
    /\ phase_start_times' = Put(phase_start_times, phase_name, now)
    /\ hist' = Event(hist)
    /\ Called("start_phase", phase_name, None)
    /\ UNCHANGED <<now, identity, timing, cost, tokens, agent, outcome,
                   module_start_times, module_attempts, start_time,
                   message_count, returned, table, db_last, rt, auxVars, toolVars>>

\* end_phase without the membership test: an unstarted phase gets an entry
end_phase_durations_unguarded(phase_name) ==
    Put(timing.phase_durations_ms, phase_name,
        IF phase_name \in DOMAIN phase_start_times
        THEN IntTrunc(now - phase_start_times[phase_name], UnitsPerMs)
        ELSE 0)

\* end_phase: the phase_durations_ms dict after the call
end_phase_durations(phase_name) ==
    IF phase_name \in DOMAIN phase_start_times
    THEN Put(timing.phase_durations_ms, phase_name,
             duration_ms_since(phase_start_times[phase_name], now))
    ELSE timing.phase_durations_ms

\* MetricsCollector.end_phase
EndPhase(phase_name) ==
    /\ Step
    /\ timing' = [timing EXCEPT
                    !.phase_durations_ms = end_phase_durations(phase_name)]
    /\ hist' = [Event(hist) EXCEPT !.phase_end =
                  IF phase_name \in DOMAIN phase_start_times
                  THEN Put(@, phase_name,
                           [t0 |-> phase_start_times[phase_name], t1 |-> now])
                  ELSE @]
    /\ Called("end_phase", phase_name, None)
    /\ UNCHANGED <<now, identity, cost, tokens, agent, outcome,
                   phase_start_times, module_start_times, module_attempts,
                   start_time, message_count, returned, table, db_last, rt, auxVars, toolVars>>

\* MetricsCollector.start_module
StartModule(module_name) ==
    /\ Step
    /\ module_start_times' = Put(module_start_times, module_name, now)
    /\ module_attempts' = Put(module_attempts, module_name,
                              Get(module_attempts, module_name, 0) + 1)
    /\ hist' = [Event(hist) EXCEPT !.module_starts[module_name] = @ + 1]
    /\ Called("start_module", module_name, None)
    /\ UNCHANGED <<now, identity, timing, cost, tokens, agent, outcome,
                   phase_start_times, start_time, message_count, returned,
                   table, db_last, rt, auxVars, toolVars>>

\* end_module: actual_attempts = attempts or self._module_attempts.get(name, 1)
actual_attempts(module_name, attempts) ==
    PyOr(attempts, Get(module_attempts, module_name, 1))

\* end_module: the module_durations list after the call
end_module_durations(module_name, attempts) ==
    IF module_name \in DOMAIN module_start_times
    THEN Append(timing.module_durations,
                ModuleTiming(module_name,
                             duration_ms_since(module_start_times[module_name],
                                               now),
                             actual_attempts(module_name, attempts)))
    ELSE timing.module_durations

\* MetricsCollector.end_module
EndModule(module_name, attempts) ==
    /\ Step
    /\ timing' = [timing EXCEPT
                    !.module_durations =
                        end_module_durations(module_name, attempts)]
    /\ hist' = Event(hist)
    /\ Called("end_module", module_name, attempts)
    /\ UNCHANGED <<now, identity, cost, tokens, agent, outcome,
                   phase_start_times, module_start_times, module_attempts,
                   start_time, message_count, returned, table, db_last, rt, auxVars, toolVars>>

\* d[k] = 1: the earlier count is lost
IncrementForgets(d, k) == Put(d, k, 1)

\* d[k] = d.get(k, 0) + 1
Increment(d, k) == Put(d, k, Get(d, k, 0) + 1)

\* MetricsCollector.record_tool_use
RecordToolUse(tool_name) ==
    /\ Step
    /\ agent' = [agent EXCEPT
                   !.tool_invocations = Increment(@, tool_name)]
    /\ hist' = [Event(hist) EXCEPT !.tool_calls[tool_name] = @ + 1]
    /\ Called("record_tool_use", tool_name, None)
    /\ UNCHANGED <<now, identity, timing, cost, tokens, outcome,
                   phase_start_times, module_start_times, module_attempts,
                   start_time, message_count, returned, table, db_last, rt, auxVars, toolVars>>

\* MetricsCollector.record_subagent
RecordSubagent(agent_type) ==
    /\ Step
    /\ agent' = [agent EXCEPT
                   !.subagent_invocations = Increment(@, agent_type)]
    /\ hist' = [Event(hist) EXCEPT !.subagent_calls[agent_type] = @ + 1]
    /\ Called("record_subagent", agent_type, None)
    /\ UNCHANGED <<now, identity, timing, cost, tokens, outcome,
                   phase_start_times, module_start_times, module_attempts,
                   start_time, message_count, returned, table, db_last, rt, auxVars, toolVars>>

\* MetricsCollector.record_message
RecordMessage ==
    /\ Step
    /\ message_count' = message_count + 1
    /\ hist' = [Event(hist) EXCEPT !.message_calls = @ + 1]
    /\ Called("record_message", "", None)
    /\ UNCHANGED <<now, identity, timing, cost, tokens, agent, outcome,
                   phase_start_times, module_start_times, module_attempts,
                   start_time, returned, table, db_last, rt, auxVars, toolVars>>

\* MetricsCollector.record_error_recovery
RecordErrorRecovery ==
    /\ Step
    /\ agent' = [agent EXCEPT !.error_recovery_events = @ + 1]
    /\ hist' = [Event(hist) EXCEPT !.recovery_calls = @ + 1]
    /\ Called("record_error_recovery", "", None)
    /\ UNCHANGED <<now, identity, timing, cost, tokens, outcome,
                   phase_start_times, module_start_times, module_attempts,
                   start_time, message_count, returned, table, db_last, rt, auxVars, toolVars>>

\* MetricsCollector.record_retry
RecordRetry ==
    /\ Step
    /\ agent' = [agent EXCEPT !.retry_count = @ + 1]
    /\ hist' = [Event(hist) EXCEPT !.retry_calls = @ + 1]
    /\ Called("record_retry", "", None)
    /\ UNCHANGED <<now, identity, timing, cost, tokens, outcome,
                   phase_start_times, module_start_times, module_attempts,
                   start_time, message_count, returned, table, db_last, rt, auxVars, toolVars>>

\* record_result reads the payload's keys: hasattr(result, "__dict__") or
\* isinstance(result, dict)
ReadsKeys(result) == result.kind \in {"object", "dict"}

\* record_result: getattr(result, key, 0) / result.get(key, 0)
result_get(result, key) == Get(result.attrs, key, 0)

\* record_result: the usage dict whose counters are read; a missing usage
\* reads as {}
result_usage(result) ==
    IF result.usage.kind = "dict" THEN result.usage.d ELSE EmptyDict

\* record_result: usage.get(...) on a dict payload whose usage is no dict
\* raises AttributeError after the scalar fields were written
ResultRaises(result) ==
    result.kind = "dict" /\ result.usage.kind = "notdict"

\* record_result: whether the four token counters are written
WritesTokens(result) ==
    /\ ReadsKeys(result)
    /\ result.usage.kind # "notdict"

\* a missing subtype read as success
result_status_lenient(result) ==
    IF result.subtype \in {None, Some("success")} THEN "success"
    ELSE "failure"

\* record_result: "success" if subtype == "success" else "failure"
result_status(result) ==
    IF result.subtype = Some("success") THEN "success" ELSE "failure"

\* MetricsCollector.record_result
RecordResult(result) ==
    /\ Step
    /\ timing' = IF ReadsKeys(result)
                 THEN [timing EXCEPT
                         !.wall_clock_duration_ms =
                             result_get(result, "duration_ms"),
                         !.api_duration_ms =
                             result_get(result, "duration_api_ms")]
                 ELSE timing
    /\ cost' = IF ReadsKeys(result)
               THEN [cost EXCEPT !.total_cost_usd =
                                     result_get(result, "total_cost_usd")]
               ELSE cost
    /\ agent' = IF ReadsKeys(result)
                THEN [agent EXCEPT !.total_turns =
                                       result_get(result, "num_turns")]
                ELSE agent
    /\ tokens' = IF WritesTokens(result)
                 THEN [input_tokens |->
                           Get(result_usage(result), "input_tokens", 0),
                       output_tokens |->
                           Get(result_usage(result), "output_tokens", 0),
                       cache_creation_input_tokens |->
                           Get(result_usage(result),
                               "cache_creation_input_tokens", 0),
                       cache_read_input_tokens |->
                           Get(result_usage(result),
                               "cache_read_input_tokens", 0)]
                 ELSE tokens
    /\ outcome' = IF ReadsKeys(result) /\ ~ResultRaises(result)
                  THEN [outcome EXCEPT !.status = result_status(result)]
                  ELSE outcome
    /\ hist' = [Event(hist) EXCEPT !.supplied =
                  IF ReadsKeys(result)
                  THEN (IF "duration_ms" \in DOMAIN result.attrs
                        THEN Some(result.attrs["duration_ms"]) ELSE None)
                  ELSE @]
    /\ last' = [op |-> "record_result", name |-> "", arg |-> result,
                raised |-> ResultRaises(result)]
    /\ UNCHANGED <<now, identity, phase_start_times, module_start_times,
                   module_attempts, start_time, message_count, returned,
                   table, db_last, rt, auxVars, toolVars>>

\* MetricsCollector.set_outcome
SetOutcome(a) ==
    /\ Step
    /\ outcome' = [status |-> a.status,
                   modules_completed |-> a.modules_completed,
                   modules_total |-> a.modules_total,
                   blocking_issues |-> PyOrList(a.blocking_issues),
                   notes |-> a.notes]
    /\ hist' = Event(hist)
    /\ Called("set_outcome", a.status, None)
    /\ UNCHANGED <<now, identity, timing, cost, tokens, agent,
                   phase_start_times, module_start_times, module_attempts,
                   start_time, message_count, returned, table, db_last, rt, auxVars, toolVars>>

\* finalize: the wall-clock duration after the call; 0 stands for "not set
\* from the result"
finalize_wall_clock ==
    IF timing.wall_clock_duration_ms = 0
    THEN duration_ms_since(start_time, now)
    ELSE timing.wall_clock_duration_ms

\* finalize: self.agent.total_messages = self._message_count
finalize_total_messages == message_count

\* finalize: MigrationMetrics(identity=self.identity, timing=self.timing,
\* ...): the six blocks are the collector's own objects, the other blocks
\* are fresh defaults
finalize_object ==
    [refs |-> {"identity", "timing", "cost", "tokens", "agent", "outcome"},
     own |-> [source_metrics |-> CodeMetrics,
              target_metrics |-> CodeMetrics,
              quality_gates |-> QualityGates,
              io_contract |-> IOContractMetrics,
              schema_version |-> SCHEMA_VERSION]]

\* MetricsCollector.finalize
Finalize ==
    /\ Step
    /\ Len(returned) < MaxFinalize
    /\ identity' = [identity EXCEPT !.completed_at = Some(now)]
    /\ agent' = [agent EXCEPT !.total_messages = finalize_total_messages]
    /\ timing' = [timing EXCEPT
                    !.wall_clock_duration_ms = finalize_wall_clock]
    /\ returned' = Append(returned, finalize_object)
    /\ UNCHANGED <<now, cost, tokens, outcome, phase_start_times,
                   module_start_times, module_attempts, start_time,
                   message_count, table, db_last, rt, auxVars, toolVars>>
    /\ hist' = [hist EXCEPT
                  !.steps = @ + 1,
                  !.run = @ + 1,
                  !.snaps = Append(@, ValueNext(finalize_object)),
                  !.messages_before = Append(@, hist.message_calls)]
    /\ Called("finalize", "", None)

----------------------------------------------------------------------------
(* collector.py: LogParser *)

\* the lines at the head of a log that are searched for the header
HeaderLines == 20

\* a line of a log, with what the patterns of LogParser read off it:
\*   start       START_PATTERN: the project and the target language
\*   strategy    STRATEGY_PATTERN
\*   msg         MSG_PATTERN matches
\*   tool        TOOL_USE_PATTERN: the first tool name
\*   task        TASK_PATTERN: the first subagent type
\*   result      "ResultMessage" in line
\*   scalars     RESULT_MESSAGE_PATTERN: duration_ms, duration_api_ms,
\*               num_turns and the text of total_cost_usd, which float()
\*               accepts (a number) or not (None)
\*   usage       USAGE_PATTERN: the three input counters
\*   output      OUTPUT_TOKENS_PATTERN
\*   success     "subtype='success'" in line
\*   timestamps  TIMESTAMP_PATTERN: the clock readings in the line, in order
\*   session_id  session_id='...'
PlainLine ==
    [start |-> None, strategy |-> None, msg |-> FALSE, tool |-> None,
     task |-> None, result |-> FALSE, scalars |-> None, usage |-> None,
     output |-> None, success |-> FALSE, timestamps |-> <<>>,
     session_id |-> None]

LogScalars(cost_text) ==
    Some([duration_ms |-> 5, duration_api_ms |-> 6, num_turns |-> 10,
          total_cost_usd |-> cost_text])

LogUsage ==
    Some([input_tokens |-> 100, cache_creation_input_tokens |-> 10,
          cache_read_input_tokens |-> 20])

LogLines ==
    {PlainLine,
     [PlainLine EXCEPT !.start = Some([project_name |-> "rpn2tex",
                                       target_language |-> "rust"])],
     [PlainLine EXCEPT !.strategy = Some("module-by-module")],
     [PlainLine EXCEPT !.msg = TRUE, !.timestamps = <<1>>],
     [PlainLine EXCEPT !.tool = Some("Bash"), !.timestamps = <<2>>],
     [PlainLine EXCEPT !.tool = Some("Task"), !.task = Some("migrator")],
     [PlainLine EXCEPT !.result = TRUE, !.scalars = LogScalars(Some(2)),
                       !.usage = LogUsage, !.output = Some(50),
                       !.success = TRUE, !.session_id = Some("abc"),
                       !.timestamps = <<3>>],
     [PlainLine EXCEPT !.result = TRUE, !.output = Some(7)],
     [PlainLine EXCEPT !.usage = LogUsage, !.output = Some(7),
                       !.success = TRUE],
     [PlainLine EXCEPT !.result = TRUE, !.scalars = LogScalars(None)]}

\* a log file: whether its name carries migration_<date>_<time>, and its
\* lines
Logs ==
    {[dated |-> d, lines |-> ls] :
        d \in BOOLEAN,
        ls \in UNION {[1..n -> LogLines] : n \in 0..MaxLogLines}}

\* the header loop over lines[:20]: the last match of each pattern is kept
RECURSIVE log_header(_, _, _)
log_header(lines, i, found) ==
    IF i > Len(lines) \/ i > HeaderLines THEN found
    ELSE log_header(lines, i + 1,
             [project_name |->
                  IF lines[i].start # None
                  THEN lines[i].start[1].project_name
                  ELSE found.project_name,
              target_language |->
                  IF lines[i].start # None
                  THEN lines[i].start[1].target_language
                  ELSE found.target_language,
              strategy |->
                  IF lines[i].strategy # None THEN lines[i].strategy[1]
                  ELSE found.strategy])

\* MetricsCollector(...) as parse_log makes it at the clock reading clock
LogCollector(header, clock) ==
    [identity |-> IdentityCreate("run-1", header.project_name, "python",
                                 header.target_language, header.strategy,
                                 clock),
     timing |-> TimingMetrics, cost |-> CostMetrics, tokens |-> TokenMetrics,
     agent |-> AgentMetrics, outcome |-> OutcomeMetrics,
     start_time |-> clock, message_count |-> 0, raised |-> FALSE]

\* the body of `for line in lines`: record_message, record_tool_use and
\* record_subagent, then the assignments of a ResultMessage line;
\* float() of a cost text that is no number raises ValueError once the
\* three fields before it are assigned
parse_line(c, line) ==
    LET c1 == IF line.msg
              THEN [c EXCEPT !.message_count = @ + 1]
              ELSE c
        c2 == IF line.tool # None
              THEN [c1 EXCEPT !.agent.tool_invocations =
                                  Increment(@, line.tool[1])]
              ELSE c1
        c3 == IF line.task # None
              THEN [c2 EXCEPT !.agent.subagent_invocations =
                                  Increment(@, line.task[1])]
              ELSE c2
        c4 == IF line.result /\ line.scalars # None
              THEN [c3 EXCEPT
                      !.timing.wall_clock_duration_ms =
                          line.scalars[1].duration_ms,
                      !.timing.api_duration_ms =
                          line.scalars[1].duration_api_ms,
                      !.agent.total_turns = line.scalars[1].num_turns,
                      !.cost.total_cost_usd =
                          IF line.scalars[1].total_cost_usd = None THEN @
                          ELSE line.scalars[1].total_cost_usd[1],
                      !.raised = line.scalars[1].total_cost_usd = None]
              ELSE c3
        c5 == IF line.result /\ line.usage # None
              THEN [c4 EXCEPT
                      !.tokens.input_tokens = line.usage[1].input_tokens,
                      !.tokens.cache_creation_input_tokens =
                          line.usage[1].cache_creation_input_tokens,
                      !.tokens.cache_read_input_tokens =
                          line.usage[1].cache_read_input_tokens]
              ELSE c4
        c6 == IF line.result /\ line.output # None
              THEN [c5 EXCEPT !.tokens.output_tokens = line.output[1]]
              ELSE c5
        c7 == IF line.result /\ line.success
              THEN [c6 EXCEPT !.outcome.status = "success"]
              ELSE c6
    IN  IF c4.raised THEN c4 ELSE c7

\* `for line in lines`, up to the line that raises
RECURSIVE parse_lines(_, _, _)
parse_lines(c, lines, i) ==
    IF i > Len(lines) \/ c.raised THEN c
    ELSE parse_lines(parse_line(c, lines[i]), lines, i + 1)

\* TIMESTAMP_PATTERN.findall(content)
RECURSIVE log_timestamps(_, _)
log_timestamps(lines, i) ==
    IF i > Len(lines) THEN <<>>
    ELSE lines[i].timestamps \o log_timestamps(lines, i + 1)

\* re.search(r"session_id='([^']+)'", content): the first one in the log
log_session_id(lines) ==
    IF \A i \in 1..Len(lines) : lines[i].session_id = None THEN None
    ELSE lines[CHOOSE i \in 1..Len(lines) :
                   /\ lines[i].session_id # None
                   /\ \A j \in 1..(i - 1) : lines[j].session_id = None
              ].session_id

\* the assignments to collector.identity after the loop
log_identity(id, log) ==
    LET timestamps == log_timestamps(log.lines, 1)
        session == log_session_id(log.lines)
        dated == timestamps # <<>> /\ log.dated
    IN  [id EXCEPT
           !.started_at = IF dated THEN timestamps[1] ELSE @,
           !.completed_at =
               IF dated /\ Len(timestamps) > 1
               THEN Some(timestamps[Len(timestamps)])
               ELSE @,
           !.run_id = IF session # None THEN session[1] ELSE @]

\* collector.finalize() at the clock reading clock
log_finalize(c, clock) ==
    [c EXCEPT
       !.identity.completed_at = Some(clock),
       !.agent.total_messages = c.message_count,
       !.timing.wall_clock_duration_ms =
           IF @ = 0 THEN duration_ms_since(c.start_time, clock) ELSE @]

\* LogParser.parse_log on a log read at the clock reading begun and
\* finalized at the clock reading ended: the collector as the call leaves it
parse_log(log, begun, ended) ==
    LET made == LogCollector(
                    log_header(log.lines, 1,
                               [project_name |-> "unknown",
                                target_language |-> "unknown",
                                strategy |-> "unknown"]),
                    begun)
        parsed == parse_lines(made, log.lines, 1)
    IN  IF parsed.raised THEN parsed
        ELSE log_finalize(
                 [parsed EXCEPT !.identity = log_identity(@, log)], ended)

\* float(result_match.group(4)) raises ValueError on this line
line_raises(line) ==
    /\ line.result
    /\ line.scalars # None
    /\ line.scalars[1].total_cost_usd = None

\* the lines `for line in lines` reaches: all of them, or those up to and
\* with the first one that raises
lines_read(lines) ==
    IF \A i \in 1..Len(lines) : ~line_raises(lines[i]) THEN lines
    ELSE SubSeq(lines, 1,
                CHOOSE i \in 1..Len(lines) :
                    /\ line_raises(lines[i])
                    /\ \A j \in 1..(i - 1) : ~line_raises(lines[j]))

\* how often a tool or a subagent type is named in the lines given
RECURSIVE LogCalls(_, _, _, _)
LogCalls(lines, i, field, name) ==
    IF i > Len(lines) THEN 0
    ELSE (IF lines[i][field] = Some(name) THEN 1 ELSE 0)
             + LogCalls(lines, i + 1, field, name)

\* LogParser().parse_log(log_path): a collector of its own is made, fed
\* from the lines and finalized; time may pass while the log is read
ParseLog(log) ==
    \E ended \in now..MaxClock :
        LET c == parse_log(log, now, ended)
        IN  /\ now' = ended
            /\ identity' = c.identity
            /\ timing' = c.timing
            /\ cost' = c.cost
            /\ tokens' = c.tokens
            /\ agent' = c.agent
            /\ outcome' = c.outcome
            /\ phase_start_times' = EmptyDict
            /\ module_start_times' = EmptyDict
            /\ module_attempts' = EmptyDict
            /\ start_time' = c.start_time
            /\ message_count' = c.message_count
            /\ returned' = IF c.raised THEN <<>> ELSE <<finalize_object>>
            /\ hist' = [steps |-> 0,
                        tool_calls |->
                            [t \in Tools |->
                                LogCalls(lines_read(log.lines), 1,
                                         "tool", t)],
                        subagent_calls |->
                            [a \in AgentTypes |->
                                LogCalls(lines_read(log.lines), 1,
                                         "task", a)],
                        message_calls |-> c.message_count,
                        retry_calls |-> 0,
                        recovery_calls |-> 0,
                        module_starts |-> [m \in Modules |-> 0],
                        phase_end |-> EmptyDict,
                        supplied |-> None,
                        snaps |-> <<>>,
                        messages_before |-> <<>>,
                        run |-> 0]
            /\ last' = [op |-> "parse_log", name |-> "", arg |-> Some(log),
                        raised |-> c.raised]
            /\ UNCHANGED <<table, db_last, rt, auxVars, toolVars>>

----------------------------------------------------------------------------
(* database.py: MigrationDatabase *)

RunIds == {"run-1", "run-2", "run-3"}

\* the duration and the status of the sample runs
SampleDuration(run_id) ==
    CASE run_id = "run-1" -> 60000
      [] run_id = "run-2" -> 120000
      [] OTHER -> 180000

SampleStatus(cost_usd) == IF cost_usd = 1 THEN "success" ELSE "failure"

\* the records handed to insert: create_test_metrics-like runs
StoreMetrics(run_id, target, duration_ms, cost_usd, status, coverage_pct) ==
    MigrationMetrics(
        [IdentityCreate(run_id, "rpn2tex", "python", target,
                        "module-by-module", 1)
            EXCEPT !.completed_at = Some(2)],
        [TimingMetrics EXCEPT !.wall_clock_duration_ms = duration_ms],
        [CostMetrics EXCEPT !.total_cost_usd = cost_usd],
        [TokenMetrics EXCEPT !.input_tokens = 1000,
                             !.cache_read_input_tokens = 200],
        AgentMetrics,
        [CodeMetrics EXCEPT !.production_loc = 500, !.test_loc = 100],
        [CodeMetrics EXCEPT !.production_loc = 600, !.test_loc = 150],
        [QualityGates EXCEPT !.coverage.line_coverage_pct = coverage_pct],
        [IOContractMetrics EXCEPT !.total_test_cases = 10, !.passed = 7],
        [OutcomeMetrics EXCEPT !.status = status])

StoreRecords ==
    {StoreMetrics(id, tg, SampleDuration(id), c, SampleStatus(c), cv) :
        id \in RunIds, tg \in {"rust", "java"}, c \in {1, 5},
        cv \in {None, Some(85)}}

\* insert: the column values bound to the INSERT statement
row_of(metrics) ==
    [run_id |-> metrics.identity.run_id,
     project_name |-> metrics.identity.project_name,
     source_language |-> metrics.identity.source_language,
     target_language |-> metrics.identity.target_language,
     strategy |-> metrics.identity.strategy,
     started_at |-> metrics.identity.started_at,
     completed_at |-> metrics.identity.completed_at,
     duration_ms |-> metrics.timing.wall_clock_duration_ms,
     cost_usd |-> metrics.cost.total_cost_usd,
     io_match_rate |-> match_rate_pct(metrics.io_contract),
     line_coverage_pct |-> metrics.quality_gates.coverage.line_coverage_pct,
     status |-> metrics.outcome.status,
     source_loc |-> metrics.source_metrics.production_loc,
     target_loc |-> metrics.target_metrics.production_loc,
     metrics_json |-> to_json(metrics)]

\* a plain INSERT into a table without the key: the old row stays
insert_keep_old(rows, row) == rows \cup {row}

\* INSERT OR REPLACE on the PRIMARY KEY run_id: a row with the same run_id
\* is deleted before the new row is written
insert_or_replace(rows, row) ==
    {r \in rows : r.run_id # row.run_id} \cup {row}

\* MigrationDatabase.get
get(run_id) ==
    LET rows == {r \in table : r.run_id = run_id}
    IN  IF rows = {} THEN None
        ELSE Some(from_json((CHOOSE r \in rows : TRUE).metrics_json))

\* MigrationDatabase.count
count == Cardinality(table)

\* no read call answered since the table was last written
NoCall == [op |-> "none"]

\* MigrationDatabase._init_db on a new database file: the empty table
StoreInit ==
    /\ table = {}
    /\ db_last = [id \in RunIds |-> None]

\* MigrationDatabase.insert
Insert(metrics) ==
    /\ \/ Cardinality(table) < MaxRows
       \/ \E r \in table : r.run_id = metrics.identity.run_id
    /\ table' = insert_or_replace(table, row_of(metrics))
    /\ db_last' = [db_last EXCEPT ![metrics.identity.run_id] = Some(metrics)]
    /\ last' = [op |-> "insert", name |-> metrics.identity.run_id,
                arg |-> [present |->
                             \E r \in table :
                                 r.run_id = metrics.identity.run_id,
                         count_before |-> count],
                raised |-> FALSE]
    /\ db_call' = NoCall
    /\ UNCHANGED <<collectorVars, rt, derived, scan, toolVars>>

\* MigrationDatabase.delete
Delete(run_id) ==
    /\ table' = {r \in table : r.run_id # run_id}
    /\ db_last' = [db_last EXCEPT ![run_id] = None]
    /\ last' = [op |-> "delete", name |-> run_id,
                arg |-> [present |-> \E r \in table : r.run_id = run_id,
                         count_before |-> count],
                raised |-> FALSE]
    /\ db_call' = NoCall
    /\ UNCHANGED <<collectorVars, rt, derived, scan, toolVars>>

----------------------------------------------------------------------------
(* database.py: the read operations *)

\* exact arithmetic on quotients with a positive denominator
RECURSIVE GCD(_, _)
GCD(a, b) == IF b = 0 THEN a ELSE GCD(b, a % b)

Abs(n) == IF n < 0 THEN -n ELSE n

Norm(q) ==
    LET g == GCD(Abs(q.num), q.den)
    IN  Ratio(q.num \div g, q.den \div g)

RatAdd(x, y) == Norm(Ratio(x.num * y.den + y.num * x.den, x.den * y.den))
RatDivInt(x, n) == Norm(Ratio(x.num, x.den * n))
RatMulInt(x, n) == Norm(Ratio(x.num * n, x.den))

\* `if project:` on an Optional[str]: None and the empty string are falsy
TruthyStr(o) == o # None /\ o[1] # ""

\* `if since:` on an Optional[datetime]: every datetime is truthy
TruthyDatetime(o) == o # None

\* conditions.append("<column> = ?"); params.append(value), when value is
\* truthy
AppendCondition(conditions, column, value) ==
    IF TruthyStr(value) THEN Put(conditions, column, value[1])
    ELSE conditions

NoFilter ==
    [project |-> None, target |-> None, strategy |-> None, status |-> None,
     since |-> None, until |-> None]

\* query: the conditions appended for the filters that are truthy
query_conditions(f) ==
    LET c1 == AppendCondition(EmptyDict, "project_name", f.project)
        c2 == AppendCondition(c1, "target_language", f.target)
        c3 == AppendCondition(c2, "strategy", f.strategy)
        c4 == AppendCondition(c3, "status", f.status)
    IN  [eq |-> c4,
         since |-> IF TruthyDatetime(f.since) THEN f.since ELSE None,
         until |-> IF TruthyDatetime(f.until) THEN f.until ELSE None]

\* aggregate: the conditions appended for the filters that are truthy
aggregate_conditions(project, target, strategy) ==
    LET c1 == AppendCondition(EmptyDict, "project_name", project)
        c2 == AppendCondition(c1, "target_language", target)
        c3 == AppendCondition(c2, "strategy", strategy)
    IN  [eq |-> c3, since |-> None, until |-> None]

\* WHERE <conditions joined by AND>, or WHERE 1=1 without conditions
where_clause(conditions, r) ==
    /\ \A column \in DOMAIN conditions.eq : r[column] = conditions.eq[column]
    /\ conditions.since # None => r.started_at >= conditions.since[1]
    /\ conditions.until # None => r.started_at <= conditions.until[1]

\* the rows of one committed state of the table that a SELECT returns
select_from(stored, conditions) ==
    {r \in stored : where_clause(conditions, r)}

select_where(conditions) == select_from(table, conditions)

\* the run ids in the order of their names
RunIdRank(id) == CASE id = "run-1" -> 1 [] id = "run-2" -> 2 [] OTHER -> 3

\* ORDER BY an integer column, ascending: every order of the rows in which
\* the column never decreases.  SQL leaves the order of rows with equal keys
\* open; SQLite returns them by rowid, forwards or backwards as the query
\* plan has it (backwards for the unfiltered query, forwards with an
\* equality filter)
orderings(rows, column) ==
    {s \in [1..Cardinality(rows) -> rows] :
        \A i, j \in 1..Cardinality(rows) :
            i < j => (s[i] # s[j] /\ s[i][column] <= s[j][column])}

\* one of these orders, for a reader that keeps the sorted column only
order_by(rows, column) == CHOOSE s \in orderings(rows, column) : TRUE

Reverse(s) == [i \in 1..Len(s) |-> s[Len(s) + 1 - i]]

\* LIMIT n: the first n rows; a negative n is no limit
sql_limit(s, n) ==
    IF n < 0 \/ n >= Len(s) THEN s ELSE SubSeq(s, 1, n)

\* SUM and AVG over the values that are not NULL; NULL when there is none
RECURSIVE SumRat(_)
SumRat(f) ==
    IF DOMAIN f = {} THEN Ratio(0, 1)
    ELSE LET x == CHOOSE x \in DOMAIN f : TRUE
         IN  RatAdd(f[x], SumRat([y \in (DOMAIN f) \ {x} |-> f[y]]))

NotNull(f) == {x \in DOMAIN f : f[x] # None}

sql_sum(f) ==
    IF NotNull(f) = {} THEN None
    ELSE Some(SumRat([x \in NotNull(f) |-> f[x][1]]))

\* AVG that counts a NULL as 0
sql_avg_null_as_zero(f) ==
    IF DOMAIN f = {} THEN None
    ELSE Some(RatDivInt(SumRat([x \in DOMAIN f |->
                                   IF f[x] = None THEN Ratio(0, 1)
                                   ELSE f[x][1]]),
                        Cardinality(DOMAIN f)))

sql_avg(f) ==
    IF NotNull(f) = {} THEN None
    ELSE Some(RatDivInt(SumRat([x \in NotNull(f) |-> f[x][1]]),
                        Cardinality(NotNull(f))))

\* the value of a numeric column: NULL, or a number as a quotient
Number(o) == IF o = None THEN None ELSE Some(Ratio(o[1], 1))

\* `x or 0` on a numeric column of the result row
OrZero(o) == IF o = None \/ o[1].num = 0 THEN Ratio(0, 1) ELSE o[1]

\* the sorted list entry below the rank, without interpolation
percentile_lower(values, pct) ==
    IF values = <<>> THEN Ratio(0, 1)
    ELSE Ratio(values[(((Len(values) - 1) * pct) \div 100) + 1], 1)

\* MigrationDatabase._percentile: values is sorted ascending and indexed
\* from 0 in the code, from 1 here
percentile(values, pct) ==
    IF values = <<>> THEN Ratio(0, 1)
    ELSE LET k == Ratio((Len(values) - 1) * pct, 100)
             f == IntTrunc(k.num, k.den)
             c == IF f + 1 < Len(values) THEN f + 1 ELSE f
             k_minus_f == Ratio(k.num - f * k.den, k.den)
         IN  Norm(Ratio(values[f + 1] * k_minus_f.den
                          + (values[c + 1] - values[f + 1]) * k_minus_f.num,
                        k_minus_f.den))

\* MigrationDatabase.aggregate, its first SELECT reading the table as
\* stats_table and its second as durations_table; wall_clock_duration_ms is
\* an int in every record, so "duration_ms IS NOT NULL" keeps every selected
\* row
aggregate_over(stats_table, durations_table, project, target, strategy) ==
    LET conditions == aggregate_conditions(project, target, strategy)
        rows == select_from(stats_table, conditions)
        row == [count |-> Cardinality(rows),
                avg_duration_ms |->
                    sql_avg([r \in rows |-> Number(Some(r.duration_ms))]),
                total_cost_usd |->
                    sql_sum([r \in rows |-> Number(Some(r.cost_usd))]),
                avg_cost_usd |->
                    sql_avg([r \in rows |-> Number(Some(r.cost_usd))]),
                avg_io_match_rate |->
                    sql_avg([r \in rows |-> Some(r.io_match_rate)]),
                avg_coverage_pct |->
                    sql_avg([r \in rows |-> Number(r.line_coverage_pct)]),
                success_rate |->
                    sql_avg([r \in rows |->
                               IF r.status = "success" THEN Some(Ratio(1, 1))
                               ELSE Some(Ratio(0, 1))]),
                avg_loc_expansion |->
                    sql_avg([r \in rows |->
                               IF r.source_loc = 0 THEN None
                               ELSE Some(Ratio(r.target_loc, r.source_loc))])]
        durations == order_by(select_from(durations_table, conditions),
                              "duration_ms")
        duration_values == [i \in 1..Len(durations) |->
                               durations[i].duration_ms]
    IN  IF row.count = 0 THEN None
        ELSE Some([count |-> row.count,
                   avg_duration_ms |-> OrZero(row.avg_duration_ms),
                   median_duration_ms |-> percentile(duration_values, 50),
                   p95_duration_ms |-> percentile(duration_values, 95),
                   total_cost_usd |-> OrZero(row.total_cost_usd),
                   avg_cost_usd |-> OrZero(row.avg_cost_usd),
                   avg_io_match_rate |-> OrZero(row.avg_io_match_rate),
                   success_rate_pct |->
                       OrZero(IF row.success_rate = None THEN None
                              ELSE Some(RatMulInt(row.success_rate[1], 100))),
                   avg_loc_expansion |-> OrZero(row.avg_loc_expansion),
                   avg_coverage_pct |-> row.avg_coverage_pct])

\* MigrationDatabase.query: the lists the call can return, one for each
\* order ORDER BY started_at DESC can give the selected rows
query(f, limit) ==
    {LET rows == sql_limit(Reverse(ordered), limit)
     IN  [i \in 1..Len(rows) |-> from_json(rows[i].metrics_json)] :
        ordered \in orderings(select_where(query_conditions(f)),
                              "started_at")}

ValueError == [error |-> "ValueError"]

\* group_by accepts status as well
valid_fields_with_status ==
    {"project_name", "target_language", "strategy", "status"}

valid_fields == {"project_name", "target_language", "strategy"}

\* group_field.replace("_language", "").replace("_name", "")
kwarg_of(group_field) ==
    CASE group_field = "project_name" -> "project"
      [] group_field = "target_language" -> "target"
      [] OTHER -> group_field

\* the arguments of the calls made on the store
Projects == {None, Some("other")}
Targets == {None, Some(""), Some("rust"), Some("java"), Some("go")}
Strategies == {None, Some("feature-by-feature")}
Statuses == {None, Some("success")}
Sinces == {None, Some(2)}
Untils == {None, Some(2)}
DefaultLimit == 100
Limits == (0..MaxLimit) \cup {DefaultLimit}
QueryTargets == {None, Some(""), Some("rust")}
GroupFields ==
    {"project_name", "target_language", "strategy", "status", "run_id"}

\* db.query(project=..., ..., limit=...)
Query(f, limit) ==
    /\ reader.pc = "idle"
    /\ db_call = NoCall
    /\ \E result \in query(f, limit) :
           db_call' = [op |-> "query", args |-> [f |-> f, limit |-> limit],
                       result |-> result]
    /\ UNCHANGED <<collectorVars, storeVars, last, rt, derived, scan,
                 toolVars>>

\* the runs stored for the queries: a start time and a duration per run id,
\* and one of three kinds of run
QueryStartedAt(run_id) == IF run_id = "run-1" THEN 1 ELSE 2

QueryProject(run_id) == IF run_id = "run-3" THEN "other" ELSE "rpn2tex"

RunKinds ==
    {[target |-> "rust", cost_usd |-> 1, status |-> "success",
      coverage |-> None, strategy |-> "module-by-module", source_loc |-> 500],
     [target |-> "java", cost_usd |-> 5, status |-> "failure",
      coverage |-> Some(85), strategy |-> "module-by-module",
      source_loc |-> 0],
     [target |-> "", cost_usd |-> 5, status |-> "success",
      coverage |-> Some(75), strategy |-> "feature-by-feature",
      source_loc |-> 500]}

QueryMetrics(run_id, kind) ==
    MigrationMetrics(
        [IdentityCreate(run_id, QueryProject(run_id), "python", kind.target,
                        kind.strategy, QueryStartedAt(run_id))
            EXCEPT !.completed_at = Some(QueryStartedAt(run_id) + 1)],
        [TimingMetrics EXCEPT
            !.wall_clock_duration_ms = SampleDuration(run_id)],
        [CostMetrics EXCEPT !.total_cost_usd = kind.cost_usd],
        TokenMetrics,
        AgentMetrics,
        [CodeMetrics EXCEPT !.production_loc = kind.source_loc],
        [CodeMetrics EXCEPT !.production_loc = 600],
        [QualityGates EXCEPT !.coverage.line_coverage_pct = kind.coverage],
        [IOContractMetrics EXCEPT !.total_test_cases = 10, !.passed = 7],
        [OutcomeMetrics EXCEPT !.status = kind.status])

QueryRecords == {QueryMetrics(id, kind) : id \in RunIds, kind \in RunKinds}

----------------------------------------------------------------------------
(* runner.py: _count_rust_test_loc *)

\* a line of a Rust file, with what the loop reads off it:
\*   skip       not line.strip(), or it starts with "//"
\*   cfg_test   "#[cfg(test)]" in line
\*   mod_tests  "mod tests" in line
\*   opens      line.count("{")
\*   closes     line.count("}")
RustLine(text, skip, cfg_test, mod_tests, opens, closes) ==
    [text |-> text, skip |-> skip, cfg_test |-> cfg_test,
     mod_tests |-> mod_tests, opens |-> opens, closes |-> closes]

RustLines ==
    {RustLine("", TRUE, FALSE, FALSE, 0, 0),
     RustLine("// }", TRUE, FALSE, FALSE, 0, 1),
     RustLine("#[cfg(test)]", FALSE, TRUE, FALSE, 0, 0),
     RustLine("mod tests {", FALSE, FALSE, TRUE, 1, 0),
     RustLine("fn f() {", FALSE, FALSE, FALSE, 1, 0),
     RustLine("}", FALSE, FALSE, FALSE, 0, 1),
     RustLine("x;", FALSE, FALSE, FALSE, 0, 0)}

\* only the "mod tests" form opens a test block
test_block_start_mod_only(line) ==
    line.mod_tests /\ line.opens > 0

\* "#[cfg(test)]" in line or ("mod tests" in line and "{" in line)
test_block_start(line) ==
    line.cfg_test \/ (line.mod_tests /\ line.opens > 0)

\* the test block is closed only below the depth it started at
test_block_closed_below(brace_depth, test_block_start_depth) ==
    brace_depth < test_block_start_depth

\* if brace_depth <= test_block_start_depth: in_test_block = False
test_block_closed(brace_depth, test_block_start_depth) ==
    brace_depth <= test_block_start_depth

ScanIdle ==
    [pc |-> "idle", lines |-> <<>>, counted |-> <<>>, prod_loc |-> 0,
     test_loc |-> 0, in_test_block |-> FALSE, brace_depth |-> 0,
     test_block_start_depth |-> 0]

\* the locals before the loop: content.split("\n") is about to be read
ScanInit == scan = [ScanIdle EXCEPT !.pc = "loop"]

\* one iteration in which the marker line itself is left uncounted
ScanLine_marker_uncounted(line) ==
    /\ scan.pc = "loop"
    /\ Len(scan.lines) < MaxLines
    /\ LET depth == scan.brace_depth + line.opens - line.closes
           seen == [scan EXCEPT !.lines = Append(@, line)]
       IN  scan' =
             IF line.skip
             THEN [seen EXCEPT !.counted = Append(@, "skip")]
             ELSE IF ~scan.in_test_block /\ test_block_start(line)
             THEN [seen EXCEPT !.counted = Append(@, "test"),
                               !.in_test_block = TRUE,
                               !.test_block_start_depth = scan.brace_depth,
                               !.brace_depth = depth]
             ELSE IF scan.in_test_block
             THEN [seen EXCEPT !.counted = Append(@, "test"),
                               !.test_loc = @ + 1,
                               !.brace_depth = depth,
                               !.in_test_block =
                                   ~test_block_closed(
                                        depth, scan.test_block_start_depth)]
             ELSE [seen EXCEPT !.counted = Append(@, "prod"),
                               !.prod_loc = @ + 1,
                               !.brace_depth = depth]
    /\ UNCHANGED <<collectorVars, storeVars, last, rt, derived, db_call,
                 toolVars>>

\* one iteration of `for line in lines`
ScanLine(line) ==
    /\ scan.pc = "loop"
    /\ Len(scan.lines) < MaxLines
    /\ LET depth == scan.brace_depth + line.opens - line.closes
           seen == [scan EXCEPT !.lines = Append(@, line)]
       IN  scan' =
             IF line.skip
             THEN [seen EXCEPT !.counted = Append(@, "skip")]
             ELSE IF ~scan.in_test_block /\ test_block_start(line)
             THEN [seen EXCEPT !.counted = Append(@, "test"),
                               !.in_test_block = TRUE,
                               !.test_block_start_depth = scan.brace_depth,
                               !.brace_depth = depth,
                               !.test_loc = @ + 1]
             ELSE IF scan.in_test_block
             THEN [seen EXCEPT !.counted = Append(@, "test"),
                               !.test_loc = @ + 1,
                               !.brace_depth = depth,
                               !.in_test_block =
                                   ~test_block_closed(
                                        depth, scan.test_block_start_depth)]
             ELSE [seen EXCEPT !.counted = Append(@, "prod"),
                               !.prod_loc = @ + 1,
                               !.brace_depth = depth]
    /\ UNCHANGED <<collectorVars, storeVars, last, rt, derived, db_call,
                 toolVars>>

\* return prod_loc, test_loc
ScanReturn ==
    /\ scan.pc = "loop"
    /\ scan' = [scan EXCEPT !.pc = "returned"]
    /\ UNCHANGED <<collectorVars, storeVars, last, rt, derived, db_call,
                 toolVars>>

----------------------------------------------------------------------------
(* The serialisation round trip: to_json, then from_json *)

RtIdle == [pc |-> "idle", rec |-> None, doc |-> None, back |-> None]

\* the Run Records that are serialised
RoundTripRecords ==
    {MigrationMetrics(
        [IdentityCreate("run-1", "rpn2tex", "python", "rust",
                        "module-by-module", 0)
            EXCEPT !.completed_at = done],
        [TimingMetrics EXCEPT !.wall_clock_duration_ms = 5,
                              !.phase_durations_ms = ph,
                              !.module_durations = md],
        [CostMetrics EXCEPT !.total_cost_usd = 2],
        [TokenMetrics EXCEPT !.input_tokens = 100,
                             !.cache_read_input_tokens = 20],
        [AgentMetrics EXCEPT !.tool_invocations = [Bash |-> 2]],
        [CodeMetrics EXCEPT !.production_loc = 500,
                            !.maintainability_index = mi],
        [CodeMetrics EXCEPT !.production_loc = 600],
        [QualityGates EXCEPT !.coverage.line_coverage_pct = cv],
        [IOContractMetrics EXCEPT !.total_test_cases = Len(fr) * 2,
                                  !.passed = Len(fr),
                                  !.feature_results = fr],
        OutcomeMetrics) :
        done \in {None, Some(3)},
        ph \in {EmptyDict, [setup |-> 1], [setup |-> 1, reporting |-> 0]},
        md \in {<<>>, <<ModuleTiming("lexer", 0, 1)>>,
                <<ModuleTiming("lexer", 1, 2), ModuleTiming("parser", 2, 1)>>},
        mi \in {None, Some(0), Some(70)},
        cv \in {None, Some(0), Some(85)},
        fr \in {<<>>, <<[feature |-> "numbers", test_count |-> 2,
                         passed |-> 1, status |-> "PARTIAL"]>>}}

RoundTripInit ==
    rt \in {[pc |-> "record", rec |-> r, doc |-> None, back |-> None] :
               r \in RoundTripRecords}

\* metrics.to_json()
Serialize ==
    /\ rt.pc = "record"
    /\ rt' = [rt EXCEPT !.pc = "json", !.doc = to_json(rt.rec)]
    /\ UNCHANGED <<collectorVars, storeVars, last, auxVars, toolVars,
                 toolVars>>

\* MigrationMetrics.from_json(json_str)
Deserialize ==
    /\ rt.pc = "json"
    /\ rt' = [rt EXCEPT !.pc = "done", !.back = from_json(rt.doc)]
    /\ UNCHANGED <<collectorVars, storeVars, last, auxVars, toolVars,
                 toolVars>>

----------------------------------------------------------------------------
(* Reading the derived properties of one record *)

DerivedIdle == [pc |-> "idle", rec |-> None, read |-> None]

\* the records whose properties are read: every token count, case count and
\* line count of the bounded ranges
DerivedRecords ==
    {MigrationMetrics(
        IdentityCreate("run-1", "rpn2tex", "python", "rust",
                       "module-by-module", 0),
        TimingMetrics,
        [CostMetrics EXCEPT !.total_cost_usd = 2],
        [TokenMetrics EXCEPT !.input_tokens = fresh,
                             !.cache_read_input_tokens = cached],
        AgentMetrics,
        [CodeMetrics EXCEPT !.production_loc = src_loc],
        [CodeMetrics EXCEPT !.production_loc = 600],
        QualityGates,
        [IOContractMetrics EXCEPT !.total_test_cases = total,
                                  !.passed = passed],
        OutcomeMetrics) :
        fresh \in 0..MaxTokens, cached \in 0..MaxTokens,
        total \in 0..MaxCases, passed \in 0..MaxCases,
        src_loc \in {0, 500}}

DerivedInit ==
    derived \in {[pc |-> "record", rec |-> r, read |-> None] :
                    r \in DerivedRecords}

\* evaluating one property of the record
ReadProperty(prop, value) ==
    /\ derived.pc = "record"
    /\ derived' = [derived EXCEPT
                     !.read = Some([prop |-> prop, value |-> value])]
    /\ UNCHANGED <<collectorVars, storeVars, last, rt, db_call, scan,
                 toolVars>>

\* metrics.tokens.cache_efficiency_ratio
ReadCacheEfficiencyRatio ==
    ReadProperty("cache_efficiency_ratio",
                 cache_efficiency_ratio(derived.rec.tokens))

\* metrics.io_contract.match_rate_pct
ReadMatchRatePct ==
    ReadProperty("match_rate_pct", match_rate_pct(derived.rec.io_contract))

\* metrics.loc_expansion_ratio
ReadLocExpansionRatio ==
    ReadProperty("loc_expansion_ratio", loc_expansion_ratio(derived.rec))

\* metrics.cost_per_loc
ReadCostPerLoc ==
    ReadProperty("cost_per_loc", cost_per_loc(derived.rec))

----------------------------------------------------------------------------
(* runner.py: _count_go_loc, _count_java_loc, _count_python_loc *)

\* a file path: the directories before the file name (an absolute path starts
\* with the empty segment), the words its stem is made of, and its extension
FilePath(dirs, words, ext) == [dirs |-> dirs, words |-> words, ext |-> ext]

\* str.lower() on a path segment
Lower(segment) ==
    CASE segment = "Test" -> "test"
      [] segment = "Tests" -> "tests"
      [] OTHER -> segment

\* "/<segment>/" in str(filepath).lower()
path_has_dir(path, segment) ==
    \E i \in 2..Len(path.dirs) : Lower(path.dirs[i]) = segment

\* filepath.stem.startswith(s), filepath.name.startswith(s)
starts_with(path, s) == Len(path.words) > 0 /\ path.words[1] = s

\* filepath.stem.endswith(s)
stem_ends_with(path, s) ==
    Len(path.words) > 0 /\ path.words[Len(path.words)] = s

\* filepath.name.endswith(s + ext)
name_ends_with(path, s, ext) == stem_ends_with(path, s) /\ path.ext = ext

\* is_test = filepath.name.endswith("_test.go")
go_is_test(path) == name_ends_with(path, "_test", ".go")

\* is_test of _count_java_loc
java_is_test(path) ==
    \/ path_has_dir(path, "test")
    \/ path_has_dir(path, "tests")
    \/ stem_ends_with(path, "Test")
    \/ starts_with(path, "Test")

\* is_test of _count_python_loc
python_is_test(path) ==
    \/ path_has_dir(path, "test")
    \/ path_has_dir(path, "tests")
    \/ starts_with(path, "test_")
    \/ name_ends_with(path, "_test", ".py")

GoPaths ==
    {FilePath(<<"", "tmp">>, <<"foo">>, ".go"),
     FilePath(<<"", "tmp">>, <<"foo", "_test">>, ".go"),
     FilePath(<<"", "tmp", "test">>, <<"foo">>, ".go")}

JavaPaths ==
    {FilePath(<<"", "tmp">>, <<"Foo">>, ".java"),
     FilePath(<<"", "tmp", "test">>, <<"Foo">>, ".java"),
     FilePath(<<"", "tmp", "Tests">>, <<"Foo">>, ".java"),
     FilePath(<<"", "tmp">>, <<"Foo", "Test">>, ".java"),
     FilePath(<<"", "tmp">>, <<"Test", "Foo">>, ".java"),
     FilePath(<<"test">>, <<"Foo">>, ".java")}

PythonPaths ==
    {FilePath(<<"", "tmp">>, <<"foo">>, ".py"),
     FilePath(<<"", "tmp", "tests">>, <<"foo">>, ".py"),
     FilePath(<<"", "tmp", "test">>, <<"foo">>, ".py"),
     FilePath(<<"", "tmp">>, <<"test_", "foo">>, ".py"),
     FilePath(<<"", "tmp">>, <<"foo", "_test">>, ".py"),
     FilePath(<<"tests">>, <<"foo">>, ".py")}

\* a line of a Go file: its text, `not stripped`, stripped.startswith("//")
GoLineOf(text, blank, slashes) ==
    [text |-> text, blank |-> blank, slashes |-> slashes]

GoLines ==
    {GoLineOf("", TRUE, FALSE),
     GoLineOf("// c", FALSE, TRUE),
     GoLineOf("x := 1", FALSE, FALSE)}

\* a line of a Java file, with what the loop reads off it:
\*   blank    not stripped
\*   slashes  stripped.startswith("//")
\*   open     "/*" in stripped
\*   close    "*/" in stripped
JavaLineOf(text, blank, slashes, open, close) ==
    [text |-> text, blank |-> blank, slashes |-> slashes, open |-> open,
     close |-> close]

JavaLines ==
    {JavaLineOf("", TRUE, FALSE, FALSE, FALSE),
     JavaLineOf("// see /* below", FALSE, TRUE, TRUE, FALSE),
     JavaLineOf("/*", FALSE, FALSE, TRUE, FALSE),
     JavaLineOf("*/", FALSE, FALSE, FALSE, TRUE),
     JavaLineOf("/* c */", FALSE, FALSE, TRUE, TRUE),
     JavaLineOf("int x;", FALSE, FALSE, FALSE, FALSE),
     JavaLineOf("@WebServlet(\"/api/*\")", FALSE, FALSE, TRUE, FALSE)}

\* the two triple-quote delimiters
DQ == "\"\"\""

SQ == "'''"

\* a line of a Python file, with what the loop reads off it:
\*   blank  not stripped
\*   hash   stripped.startswith("#")
\*   start  stripped[:3] when stripped starts with a delimiter, else None
\*   n_dq   stripped.count('"""')
\*   n_sq   stripped.count("'''")
PythonLineOf(text, blank, hash, start, n_dq, n_sq) ==
    [text |-> text, blank |-> blank, hash |-> hash, start |-> start,
     n_dq |-> n_dq, n_sq |-> n_sq]

PythonLines ==
    {PythonLineOf("", TRUE, FALSE, None, 0, 0),
     PythonLineOf("# c", FALSE, TRUE, None, 0, 0),
     PythonLineOf("\"\"\"doc\"\"\"", FALSE, FALSE, Some(DQ), 2, 0),
     PythonLineOf(DQ, FALSE, FALSE, Some(DQ), 1, 0),
     PythonLineOf(SQ, FALSE, FALSE, Some(SQ), 0, 1),
     PythonLineOf("x = 1", FALSE, FALSE, None, 0, 0),
     PythonLineOf("S = \"\"\"", FALSE, FALSE, None, 1, 0)}

\* stripped.count(docstring_char)
delimiter_count(line, docstring_char) ==
    IF docstring_char = DQ THEN line.n_dq ELSE line.n_sq

FileIdle ==
    [pc |-> "idle", counter |-> "none", path |-> FilePath(<<>>, <<>>, ""),
     lines |-> <<>>, counted |-> <<>>, loc |-> 0,
     in_block_comment |-> FALSE, in_docstring |-> FALSE,
     docstring_char |-> "", result |-> None]

\* the locals of a counter called on filepath, before its loop
FileLocals(counter, path) ==
    [FileIdle EXCEPT !.pc = "loop", !.counter = counter, !.path = path]

FileInit(counter, path) == fscan = FileLocals(counter, path)

\* a line is read and counted or not
Counted(state, line, yes) ==
    [state EXCEPT !.lines = Append(@, line),
                  !.counted = Append(@, IF yes THEN "loc" ELSE "skip"),
                  !.loc = IF yes THEN @ + 1 ELSE @]

\* _count_go_loc: the body of the loop
GoStep(state, line) == Counted(state, line, ~line.blank /\ ~line.slashes)

\* in_block_comment after the two tests on "/*" and "*/"
in_block_comment_after(in_block_comment, line) ==
    IF line.close THEN FALSE
    ELSE IF line.open THEN TRUE
    ELSE in_block_comment

\* _count_java_loc: the body of the loop
JavaStep(state, line) ==
    LET inside == in_block_comment_after(state.in_block_comment, line)
        yes == ~line.close /\ ~inside /\ ~line.blank /\ ~line.slashes
    IN  [Counted(state, line, yes) EXCEPT !.in_block_comment = inside]

\* _count_python_loc: the body of the loop
PythonStep(state, line) ==
    IF ~state.in_docstring
    THEN IF line.start # None
         THEN [Counted(state, line, FALSE)
                  EXCEPT !.docstring_char = line.start[1],
                         !.in_docstring =
                             delimiter_count(line, line.start[1]) < 2]
         ELSE Counted(state, line, ~line.blank /\ ~line.hash)
    ELSE [Counted(state, line, FALSE)
             EXCEPT !.in_docstring =
                 ~(/\ state.docstring_char # ""
                   /\ delimiter_count(line, state.docstring_char) > 0)]

\* the body of the loop of the counter that is running
FileStep(state, line) ==
    CASE state.counter = "go" -> GoStep(state, line)
      [] state.counter = "java" -> JavaStep(state, line)
      [] state.counter = "python" -> PythonStep(state, line)

\* one iteration of `for line in content.split("\n")`
FileLine(counter, line) ==
    /\ fscan.pc = "loop"
    /\ fscan.counter = counter
    /\ Len(fscan.lines) < MaxFileLines
    /\ fscan' = FileStep(fscan, line)
    /\ UNCHANGED <<collectorVars, storeVars, last, rt, auxVars, measure,
                   blocks, dbfile, ckpt, reader>>

\* _count_go_loc: one iteration of the loop
GoLine(line) == FileLine("go", line)

\* _count_java_loc: one iteration of the loop
JavaLine(line) == FileLine("java", line)

\* _count_python_loc: one iteration of the loop
PythonLine(line) == FileLine("python", line)

\* if is_test: return 0, loc; return loc, 0
loc_pair(is_test, loc) == IF is_test THEN <<0, loc>> ELSE <<loc, 0>>

\* is_test of the counter
is_test(counter, path) ==
    CASE counter = "go" -> go_is_test(path)
      [] counter = "java" -> java_is_test(path)
      [] counter = "python" -> python_is_test(path)

\* the end of a counter: the file is classified by its path and name
FileReturn ==
    /\ fscan.pc = "loop"
    /\ fscan' = [fscan EXCEPT
           !.pc = "returned",
           !.result = Some(loc_pair(is_test(fscan.counter, fscan.path),
                                    fscan.loc))]
    /\ UNCHANGED <<collectorVars, storeVars, last, rt, auxVars, measure,
                   blocks, dbfile, ckpt, reader>>

----------------------------------------------------------------------------
(* runner.py: measure_loc *)

\* _count_rust_test_loc: the locals before the loop
RustLocals == [ScanIdle EXCEPT !.pc = "loop"]

\* _count_rust_test_loc: the body of the loop
RustStep(state, line) ==
    LET depth == state.brace_depth + line.opens - line.closes
        seen == [state EXCEPT !.lines = Append(@, line)]
    IN  IF line.skip
        THEN [seen EXCEPT !.counted = Append(@, "skip")]
        ELSE IF ~state.in_test_block /\ test_block_start(line)
        THEN [seen EXCEPT !.counted = Append(@, "test"),
                          !.in_test_block = TRUE,
                          !.test_block_start_depth = state.brace_depth,
                          !.brace_depth = depth,
                          !.test_loc = @ + 1]
        ELSE IF state.in_test_block
        THEN [seen EXCEPT !.counted = Append(@, "test"),
                          !.test_loc = @ + 1,
                          !.brace_depth = depth,
                          !.in_test_block =
                              ~test_block_closed(
                                   depth, state.test_block_start_depth)]
        ELSE [seen EXCEPT !.counted = Append(@, "prod"),
                          !.prod_loc = @ + 1,
                          !.brace_depth = depth]

\* the locals of a counter after the first i lines of the file
RECURSIVE Scanned(_, _, _, _)
Scanned(counter, locals, lines, i) ==
    IF i = 0 THEN locals
    ELSE LET before == Scanned(counter, locals, lines, i - 1)
         IN  IF counter = "rust" THEN RustStep(before, lines[i])
             ELSE FileStep(before, lines[i])

\* a file of the file system: its path, whether read_text() succeeds, and
\* its lines
File(path, readable, lines) ==
    [path |-> path, readable |-> readable, lines |-> lines]

\* counter(filepath): (0, 0) when the file cannot be read, else the counts of
\* the loop over its lines
count_loc(counter, file) ==
    IF ~file.readable THEN <<0, 0>>
    ELSE IF counter = "rust"
    THEN LET end == Scanned(counter, RustLocals, file.lines,
                            Len(file.lines))
         IN  <<end.prod_loc, end.test_loc>>
    ELSE LET end == Scanned(counter, FileLocals(counter, file.path),
                            file.lines, Len(file.lines))
         IN  loc_pair(is_test(counter, file.path), end.loc)

\* language.lower()
lower(language) ==
    CASE language = "Python" -> "python"
      [] language = "RUST" -> "rust"
      [] OTHER -> language

\* lang_config.get(...): the extension and the counter, or None
lang_config(language) ==
    CASE language = "python" -> Some([ext |-> ".py", counter |-> "python"])
      [] language = "rust" -> Some([ext |-> ".rs", counter |-> "rust"])
      [] language = "java" -> Some([ext |-> ".java", counter |-> "java"])
      [] language = "go" -> Some([ext |-> ".go", counter |-> "go"])
      [] OTHER -> None

\* the segments of directory are the first segments of dirs
IsUnder(dirs, directory) ==
    /\ Len(directory) <= Len(dirs)
    /\ \A i \in 1..Len(directory) : dirs[i] = directory[i]

\* dir_path.glob("*" + ext): the files of the directory itself
glob_top_level(fs, directory, ext) ==
    {f \in fs : f.path.dirs = directory /\ f.path.ext = ext}

\* dir_path.glob("**/*" + ext): the files below the directory, at any depth
glob(fs, directory, ext) ==
    {f \in fs : IsUnder(f.path.dirs, directory) /\ f.path.ext = ext}

\* the lines of a file, by their text
GoText(text) == CHOOSE line \in GoLines : line.text = text

JavaText(text) == CHOOSE line \in JavaLines : line.text = text

PythonText(text) == CHOOSE line \in PythonLines : line.text = text

RustText(text) == CHOOSE line \in RustLines : line.text = text

\* the directory that exists, and one that does not
ProjectDir == <<"", "tmp", "proj">>

MissingDir == <<"", "nonexistent", "dir">>

Directories == {ProjectDir, MissingDir}

\* the files a file system may hold
FileUniverse ==
    {File(FilePath(ProjectDir, <<"main">>, ".py"), TRUE,
          <<PythonText("x = 1"), PythonText("# c"), PythonText("x = 1")>>),
     File(FilePath(ProjectDir \o <<"tests">>, <<"test_", "main">>, ".py"),
          TRUE, <<PythonText("x = 1")>>),
     File(FilePath(ProjectDir \o <<"pkg", "sub">>, <<"util">>, ".py"), TRUE,
          <<PythonText(DQ), PythonText("x = 1"), PythonText(DQ),
            PythonText("x = 1")>>),
     File(FilePath(ProjectDir, <<"secret">>, ".py"), FALSE,
          <<PythonText("x = 1")>>),
     File(FilePath(ProjectDir \o <<"src">>, <<"main">>, ".rs"), TRUE,
          <<RustText("fn f() {"), RustText("}"), RustText("mod tests {"),
            RustText("x;"), RustText("}")>>),
     File(FilePath(ProjectDir, <<"Foo">>, ".java"), TRUE,
          <<JavaText("int x;")>>),
     File(FilePath(ProjectDir \o <<"pkg">>, <<"foo", "_test">>, ".go"), TRUE,
          <<GoText("x := 1"), GoText("// c")>>),
     File(FilePath(<<"", "tmp", "other">>, <<"x">>, ".py"), TRUE,
          <<PythonText("x = 1")>>)}

Languages == {"python", "rust", "java", "go", "Python", "cobol"}

MeasureIdle ==
    [pc |-> "idle", fs |-> {}, directory |-> <<>>, language |-> "",
     counter |-> "", todo |-> {}, production_loc |-> 0, test_loc |-> 0,
     file_count |-> 0, result |-> None]

\* a file system of at most MaxFiles files
MeasureInit ==
    \E fs \in SUBSET FileUniverse :
        /\ Cardinality(fs) <= MaxFiles
        /\ measure = [MeasureIdle EXCEPT !.fs = fs]

\* measure_loc, up to the loop over the files
MeasureLoc(directory, language) ==
    /\ measure.pc = "idle"
    /\ LET config == lang_config(lower(language))
           called == [measure EXCEPT !.directory = directory,
                                     !.language = language]
       IN  measure' =
             IF directory # ProjectDir \/ config = None
             THEN [called EXCEPT !.pc = "returned",
                                 !.result = Some(<<0, 0, 0>>)]
             ELSE LET files == glob(measure.fs, directory, config[1].ext)
                  IN  [called EXCEPT !.pc = "loop",
                                     !.counter = config[1].counter,
                                     !.todo = files,
                                     !.file_count = Cardinality(files)]
    /\ UNCHANGED <<collectorVars, storeVars, last, rt, auxVars, fscan,
                   blocks, dbfile, ckpt, reader>>

\* one iteration of `for filepath in files`
MeasureFile(filepath) ==
    /\ measure.pc = "loop"
    /\ filepath \in measure.todo
    /\ LET counts == count_loc(measure.counter, filepath)
       IN  measure' = [measure EXCEPT !.todo = @ \ {filepath},
                                      !.production_loc = @ + counts[1],
                                      !.test_loc = @ + counts[2]]
    /\ UNCHANGED <<collectorVars, storeVars, last, rt, auxVars, fscan,
                   blocks, dbfile, ckpt, reader>>

\* return production_loc, test_loc, file_count
MeasureReturn ==
    /\ measure.pc = "loop"
    /\ measure.todo = {}
    /\ measure' = [measure EXCEPT
           !.pc = "returned",
           !.result = Some(<<measure.production_loc, measure.test_loc,
                             measure.file_count>>)]
    /\ UNCHANGED <<collectorVars, storeVars, last, rt, auxVars, fscan,
                   blocks, dbfile, ckpt, reader>>

----------------------------------------------------------------------------
(* collector.py and analyzer.py: the code-metrics blocks of a Run Record *)

\* what _run_cloc returns: None, or the dict of the language, which is empty
\* (found = FALSE) when cloc reports nothing for it
Cloc(found, code, comment, blank) ==
    Some([found |-> found, code |-> code, comment |-> comment,
          blank |-> blank])

ClocOutputs ==
    {None, Cloc(FALSE, 0, 0, 0), Cloc(TRUE, 2, 1, 1), Cloc(TRUE, 1000, 0, 0)}

\* `if loc_data:`
cloc_found(loc_data) == loc_data # None /\ loc_data[1].found

\* what the other tools return: _run_lizard (None when it fails), the module
\* count, the maintainability index and the dependency count
ToolOutputs ==
    {[lizard |-> None, module_count |-> 0, mi |-> None, deps |-> 0],
     [lizard |-> Some([function_count |-> 3, avg_cc |-> 2, max_cc |-> 4]),
      module_count |-> 2, mi |-> Some(Ratio(80, 1)), deps |-> 1]}

\* the complexity fields, set when lizard returned data
with_complexity(metrics, tools) ==
    IF tools.lizard = None THEN metrics
    ELSE [metrics EXCEPT
             !.function_count = tools.lizard[1].function_count,
             !.avg_cyclomatic_complexity = tools.lizard[1].avg_cc,
             !.max_cyclomatic_complexity = tools.lizard[1].max_cc]

\* floor(log2(n)) for n >= 1
RECURSIVE log2_floor(_)
log2_floor(n) == IF n < 2 THEN 0 ELSE 1 + log2_floor(n \div 2)

\* the first `digits` decimals of a / b for 0 <= a < b, as an integer
RECURSIVE decimals(_, _, _)
decimals(a, b, digits) ==
    IF digits = 0
    THEN 0
    ELSE ((a * 10) \div b) * 10 ^ (digits - 1)
            + decimals((a * 10) % b, b, digits - 1)

\* the product of two numbers below one, both held in units of 10^-8, in the
\* same units; the factors are split so that no intermediate leaves 32 bits
mul_fraction(a, b) ==
    LET a1 == a \div 10000
        a0 == a % 10000
        b1 == b \div 10000
        b0 == b % 10000
    IN  a1 * b1 + (a1 * b0 + a0 * b1) \div 10000 + (a0 * b0) \div 100000000

\* atanh(y) = y + y^3/3 + y^5/5 + ... in units of 10^-8, for y below 1/3;
\* power is the current odd power of y, the terms after y^17 are below 10^-9
RECURSIVE atanh(_, _, _)
atanh(power, square, odd) ==
    IF power = 0 \/ odd > 17
    THEN 0
    ELSE power \div odd + atanh(mul_fraction(power, square), square, odd + 2)

\* math.log(n) in units of 10^-8 for 1 <= n <= 10^8:
\* ln(n) = k * ln(2) + 2 * atanh((n - 2^k) / (n + 2^k)) with k = floor(log2(n))
\* and ln(2) = 0.69314718; the result is within 10^-6 of the float's value
math_log(n) ==
    LET k == log2_floor(n)
        y == decimals(n - 2 ^ k, n + 2 ^ k, 8)
    IN  k * 69314718 + 2 * atanh(y, mul_fraction(y, y), 1)

\* _calculate_mi_from_metrics: None when loc <= 0, else (within 10^-5)
\* 171 - 0.23 * avg_cc - 16.2 * ln(loc) clamped to 0..100, held in millionths
\* (16.2 * ln in millionths is 81 * ln / 500 with ln in units of 10^-8, the
\* quotient taken in two parts to stay within 32 bits)
calculate_mi_from_metrics(loc, avg_cc) ==
    IF loc <= 0
    THEN None
    ELSE LET ln == math_log(loc)
             mi == 171000000 - 230000 * avg_cc
                       - (81 * (ln \div 500) + (81 * (ln % 500)) \div 500)
             clamped == IF mi >= 100000000 THEN 100000000
                        ELSE IF mi <= 0 THEN 0
                        ELSE mi
         IN  Some(Ratio(clamped, 1000000))

\* total_loc of the blocks that are filled from one cloc run
cloc_total(loc_data) ==
    loc_data[1].code + loc_data[1].comment + loc_data[1].blank

\* PostHocAnalyzer.analyze_python_source
analyze_python_source(loc_data, tools) ==
    LET counted == IF cloc_found(loc_data)
                   THEN [CodeMetrics EXCEPT
                            !.production_loc = loc_data[1].code,
                            !.total_loc = cloc_total(loc_data)]
                   ELSE CodeMetrics
    IN  [with_complexity(counted, tools) EXCEPT
            !.module_count = tools.module_count,
            !.maintainability_index = tools.mi,
            !.external_dependencies = tools.deps]

\* PostHocAnalyzer.analyze_rust_target; inline is what
\* _count_rust_loc_with_inline_tests returns, test_cloc the cloc run on tests/
\* (None also when there is no such directory)
analyze_rust_target(src_exists, inline, test_cloc, tools) ==
    IF ~src_exists THEN CodeMetrics
    ELSE LET test_loc == inline[2] + (IF cloc_found(test_cloc)
                                      THEN test_cloc[1].code ELSE 0)
             counted == [CodeMetrics EXCEPT
                            !.production_loc = inline[1],
                            !.test_loc = test_loc,
                            !.total_loc = inline[1] + test_loc]
             measured == with_complexity(counted, tools)
         IN  [measured EXCEPT
                 !.module_count = tools.module_count,
                 !.external_dependencies = tools.deps,
                 !.maintainability_index =
                     calculate_mi_from_metrics(
                         inline[1], measured.avg_cyclomatic_complexity)]

\* PostHocAnalyzer.analyze_java_target
analyze_java_target(src_exists, loc_data, test_cloc, tools) ==
    IF ~src_exists THEN CodeMetrics
    ELSE LET production_loc == IF cloc_found(loc_data)
                               THEN loc_data[1].code ELSE 0
             counted == [CodeMetrics EXCEPT
                            !.production_loc = production_loc,
                            !.total_loc = IF cloc_found(loc_data)
                                          THEN cloc_total(loc_data) ELSE 0,
                            !.test_loc = IF cloc_found(test_cloc)
                                         THEN test_cloc[1].code ELSE 0]
             measured == with_complexity(counted, tools)
         IN  [measured EXCEPT
                 !.module_count = tools.module_count,
                 !.external_dependencies = tools.deps,
                 !.maintainability_index =
                     calculate_mi_from_metrics(
                         production_loc,
                         measured.avg_cyclomatic_complexity)]

\* PostHocAnalyzer.analyze_go_target; prod_cloc and test_cloc are the cloc
\* runs on the production and the test files (None also without such files)
analyze_go_target(go_files, prod_cloc, test_cloc, tools) ==
    IF ~go_files THEN CodeMetrics
    ELSE LET production_loc == IF cloc_found(prod_cloc)
                               THEN prod_cloc[1].code ELSE 0
             test_loc == IF cloc_found(test_cloc)
                         THEN test_cloc[1].code ELSE 0
             counted == [CodeMetrics EXCEPT
                            !.production_loc = production_loc,
                            !.test_loc = test_loc,
                            !.total_loc = production_loc + test_loc]
             measured == with_complexity(counted, tools)
         IN  [measured EXCEPT
                 !.module_count = tools.module_count,
                 !.external_dependencies = tools.deps,
                 !.maintainability_index =
                     calculate_mi_from_metrics(
                         production_loc,
                         measured.avg_cyclomatic_complexity)]

\* MetricsCollector.record_source_loc and record_target_loc: the block with
\* the two counts, their sum, and the module and function counts
record_loc(production_loc, test_loc, module_count, function_count) ==
    [CodeMetrics EXCEPT !.production_loc = production_loc,
                        !.test_loc = test_loc,
                        !.total_loc = production_loc + test_loc,
                        !.module_count = module_count,
                        !.function_count = function_count]

\* the line counts the classifier hands to the collector
LocCounts == {0, 2, 500}

\* the two blocks of a Run Record, and the operation that filled each
BlocksIdle ==
    [source_metrics |-> CodeMetrics, target_metrics |-> CodeMetrics,
     source_by |-> "default", target_by |-> "default"]

\* collector.record_source_loc(...)
RecordSourceLoc(production_loc, test_loc, module_count) ==
    /\ blocks' = [blocks EXCEPT
           !.source_metrics =
               record_loc(production_loc, test_loc, module_count, 0),
           !.source_by = "record_source_loc"]
    /\ UNCHANGED <<collectorVars, storeVars, last, rt, auxVars, fscan,
                   measure, dbfile, ckpt, reader>>

\* collector.record_target_loc(...)
RecordTargetLoc(production_loc, test_loc, module_count) ==
    /\ blocks' = [blocks EXCEPT
           !.target_metrics =
               record_loc(production_loc, test_loc, module_count, 0),
           !.target_by = "record_target_loc"]
    /\ UNCHANGED <<collectorVars, storeVars, last, rt, auxVars, fscan,
                   measure, dbfile, ckpt, reader>>

\* metrics.source_metrics = analyzer.analyze_python_source(source_dir)
AnalyzePythonSource(loc_data, tools) ==
    /\ blocks' = [blocks EXCEPT
           !.source_metrics = analyze_python_source(loc_data, tools),
           !.source_by = "analyze_python_source"]
    /\ UNCHANGED <<collectorVars, storeVars, last, rt, auxVars, fscan,
                   measure, dbfile, ckpt, reader>>

\* the target block is replaced by what an analyzer returned
SetTarget(metrics, by) ==
    /\ blocks' = [blocks EXCEPT !.target_metrics = metrics, !.target_by = by]
    /\ UNCHANGED <<collectorVars, storeVars, last, rt, auxVars, fscan,
                   measure, dbfile, ckpt, reader>>

\* metrics.target_metrics = analyzer.analyze_rust_target(target_dir.parent)
AnalyzeRustTarget(src_exists, inline, test_cloc, tools) ==
    SetTarget(analyze_rust_target(src_exists, inline, test_cloc, tools),
              "analyze_rust_target")

AnalyzeJavaTarget(src_exists, loc_data, test_cloc, tools) ==
    SetTarget(analyze_java_target(src_exists, loc_data, test_cloc, tools),
              "analyze_java_target")

AnalyzeGoTarget(go_files, prod_cloc, test_cloc, tools) ==
    SetTarget(analyze_go_target(go_files, prod_cloc, test_cloc, tools),
              "analyze_go_target")

----------------------------------------------------------------------------
(* database.py: opening the store *)

\* the columns of the migrations table in SCHEMA
SchemaColumns ==
    {"run_id", "project_name", "source_language", "target_language",
     "strategy", "started_at", "completed_at", "duration_ms", "cost_usd",
     "io_match_rate", "line_coverage_pct", "status", "source_loc",
     "target_loc", "metrics_json", "created_at"}

\* the column MIGRATION_V2 adds
AddedColumn == "line_coverage_pct"

\* the columns of a table created before that column was introduced
V1Columns == SchemaColumns \ {AddedColumn}

\* the processes that open the database file
Procs == {1, 2}

\* CREATE TABLE IF NOT EXISTS migrations: columns is None while there is no
\* table
create_if_not_exists(columns) ==
    IF columns = None THEN Some(SchemaColumns) ELSE columns

\* ALTER TABLE migrations ADD COLUMN line_coverage_pct REAL: the rows are kept,
\* and sqlite3.OperationalError is raised when the column exists
alter_add_column(columns) ==
    IF AddedColumn \in columns
    THEN [columns |-> columns, error |-> TRUE]
    ELSE [columns |-> columns \cup {AddedColumn}, error |-> FALSE]

\* the column is added without the test on table_info and without the
\* except clause
run_migrations_unguarded(seen, columns) ==
    LET done == alter_add_column(columns)
    IN  [columns |-> done.columns, raised |-> done.error]

\* _run_migrations, from the columns PRAGMA table_info returned (seen) and
\* the columns of the table when the ALTER statement runs
run_migrations(seen, columns) ==
    IF AddedColumn \notin seen
    THEN [columns |-> alter_add_column(columns).columns, raised |-> FALSE]
    ELSE [columns |-> columns, raised |-> FALSE]

\* the rows a database file holds before it is opened
OpenRecords ==
    {StoreMetrics("run-1", "rust", 60000, 1, "success", None),
     StoreMetrics("run-2", "java", 120000, 5, "failure", None),
     StoreMetrics("run-3", "rust", 180000, 1, "success", Some(85))}

\* no database file, and no store
DbFileIdle ==
    [initial |-> None, columns |-> None,
     store |-> [p \in Procs |-> [pc |-> "closed", seen |-> {}]],
     opens |-> 0, raised |-> FALSE]

\* a database file as it is found: none, one written before line_coverage_pct
\* was introduced, or a current one
DbFileInit ==
    \E columns \in {None, Some(V1Columns), Some(SchemaColumns)},
       records \in SUBSET OpenRecords :
        /\ columns = None => records = {}
        /\ columns = Some(V1Columns) =>
               \A m \in records :
                   m.quality_gates.coverage.line_coverage_pct = None
        /\ table = {row_of(m) : m \in records}
        /\ db_last = [id \in RunIds |-> None]
        /\ dbfile = [DbFileIdle EXCEPT !.initial = columns,
                                       !.columns = columns]

\* MigrationDatabase(db_path), up to its first statement:
\* conn.executescript(SCHEMA), which commits on its own
InitDb(p) ==
    /\ dbfile.store[p].pc = "closed"
    /\ dbfile.opens < MaxOpens
    /\ dbfile' = [dbfile EXCEPT
           !.columns = create_if_not_exists(@),
           !.opens = @ + 1,
           !.store[p] = [pc |-> "created", seen |-> {}]]
    /\ UNCHANGED <<collectorVars, storeVars, last, rt, auxVars, fscan,
                   measure, blocks, ckpt, reader>>

\* the first statement of _run_migrations: PRAGMA table_info(migrations)
\* reads the columns the table has by now
TableInfo(p) ==
    /\ dbfile.store[p].pc = "created"
    /\ dbfile' = [dbfile EXCEPT
           !.store[p] = [pc |-> "migrating", seen |-> dbfile.columns[1]]]
    /\ UNCHANGED <<collectorVars, storeVars, last, rt, auxVars, fscan,
                   measure, blocks, ckpt, reader>>

\* the rest of _run_migrations, and the commit that ends _init_db
RunMigrations(p) ==
    /\ dbfile.store[p].pc = "migrating"
    /\ LET done == run_migrations(dbfile.store[p].seen, dbfile.columns[1])
       IN  dbfile' = [dbfile EXCEPT
               !.columns = Some(done.columns),
               !.raised = @ \/ done.raised,
               !.store[p].pc = IF done.raised THEN "failed" ELSE "open"]
    /\ UNCHANGED <<collectorVars, storeVars, last, rt, auxVars, fscan,
                   measure, blocks, ckpt, reader>>

\* the store object is dropped; the file stays
DropStore(p) ==
    /\ dbfile.store[p].pc = "open"
    /\ dbfile' = [dbfile EXCEPT !.store[p] = [pc |-> "closed", seen |-> {}]]
    /\ UNCHANGED <<collectorVars, storeVars, last, rt, auxVars, fscan,
                   measure, blocks, ckpt, reader>>

\* db.insert(metrics) on a store that is open
OpenInsert(metrics) ==
    /\ \E p \in Procs : dbfile.store[p].pc = "open"
    /\ Insert(metrics)

----------------------------------------------------------------------------
(* checkpoint.py: CheckpointManager *)

\* feature names, session ids and error messages of the calls
Features == {"numbers", "addition", ""}

SessionIds == {"session-1", "session-2"}

ErrorMessages == {"Command failed"}

\* CheckpointState(project, target, strategy), the other fields at their
\* defaults
CheckpointState(project, target, strategy) ==
    [project |-> project, target |-> target, strategy |-> strategy,
     session_id |-> "", current_feature |-> None,
     completed_features |-> <<>>, failed_feature |-> None,
     error_message |-> None, last_checkpoint_time |-> 0]

\* CheckpointState.to_dict
CheckpointToDict(state) ==
    [project |-> state.project, target |-> state.target,
     strategy |-> state.strategy, session_id |-> state.session_id,
     current_feature |-> state.current_feature,
     completed_features |-> state.completed_features,
     failed_feature |-> state.failed_feature,
     error_message |-> state.error_message,
     last_checkpoint_time |-> state.last_checkpoint_time]

\* `str(v) if v and isinstance(v, str) else None`: an empty string reads back
\* as None
non_empty_or_none(value) ==
    IF value # None /\ value[1] # "" THEN value ELSE None

\* CheckpointState.from_dict: every key is read with data.get, a missing
\* string is "", a missing or null list is empty, a missing optional is
\* None, and a missing time stamp is the empty one (0)
CheckpointFromDict(data) ==
    LET completed == Get(data, "completed_features", None)
    IN  [project |-> Get(data, "project", ""),
         target |-> Get(data, "target", ""),
         strategy |-> Get(data, "strategy", ""),
         session_id |-> Get(data, "session_id", ""),
         current_feature |->
             non_empty_or_none(Get(data, "current_feature", None)),
         completed_features |->
             [i \in 1..Len(completed) |-> completed[i]],
         failed_feature |->
             non_empty_or_none(Get(data, "failed_feature", None)),
         error_message |->
             non_empty_or_none(Get(data, "error_message", None)),
         last_checkpoint_time |-> Get(data, "last_checkpoint_time", 0)]

\* the state files a migration directory can hold when the manager is made:
\* none, an empty object, or one with the three required fields only
FoundFiles ==
    {None, Some(EmptyDict),
     Some([project |-> "test", target |-> "rust",
           strategy |-> "module-by-module"])}

\* the states a caller hands to save: a new one, one of a session with a
\* completed feature, and one with two completed features
CallerStates ==
    {CheckpointState("test", "rust", "feature-by-feature"),
     [CheckpointState("rpn2tex", "java", "feature-by-feature") EXCEPT
          !.session_id = "test-session",
          !.completed_features = <<"numbers">>],
     [CheckpointState("test", "rust", "feature-by-feature") EXCEPT
          !.completed_features = <<"numbers", "addition">>]}

\* no checkpoint directory, no state file
CkptIdle ==
    [dir |-> FALSE, file |-> None, clock |-> 0,
     last |-> [op |-> "none", feature |-> "", repeated |-> FALSE,
               raised |-> FALSE],
     refused |-> FALSE]

\* CheckpointManager.load
load == IF ckpt.file = None THEN None ELSE Some(CheckpointFromDict(ckpt.file[1]))

\* CheckpointManager.save: the directory is made, the time is stamped and
\* the file is written
save(state, called) ==
    ckpt' = [ckpt EXCEPT
        !.dir = TRUE,
        !.clock = @ + 1,
        !.file = Some(CheckpointToDict(
                     [state EXCEPT !.last_checkpoint_time = ckpt.clock + 1])),
        !.last = called]

\* the ValueError of a call that finds no state
no_checkpoint_state(called) ==
    ckpt' = [ckpt EXCEPT !.last = [called EXCEPT !.raised = TRUE],
                         !.refused = TRUE]

\* what a call leaves alone
CkptFrame ==
    UNCHANGED <<collectorVars, storeVars, last, rt, auxVars, fscan, measure,
                blocks, dbfile, reader>>

\* the call as it is recorded
CkptCall(op, feature) ==
    [op |-> op, feature |-> feature,
     repeated |-> /\ load # None
                  /\ \E i \in 1..Len(load[1].completed_features) :
                         load[1].completed_features[i] = feature,
     raised |-> FALSE]

\* CheckpointManager.save(state), called with a state of the caller's own
Save(state) ==
    /\ ckpt.clock < MaxSaves
    /\ save(state, CkptCall("save", ""))
    /\ CkptFrame

\* CheckpointManager.create_initial
CreateInitial ==
    /\ ckpt.clock < MaxSaves
    /\ save(CheckpointState("test", "rust", "feature-by-feature"),
            CkptCall("create_initial", ""))
    /\ CkptFrame

\* CheckpointManager.clear
Clear ==
    /\ ckpt' = [ckpt EXCEPT !.file = None, !.last = CkptCall("clear", "")]
    /\ CkptFrame

\* the state mark_feature_started saves
mark_feature_started(state, feature, session_id) ==
    [state EXCEPT !.current_feature = Some(feature),
                  !.session_id = session_id,
                  !.failed_feature = None,
                  !.error_message = None]

\* the feature is appended without the membership test
mark_feature_completed_appending(state, feature, session_id) ==
    [state EXCEPT !.completed_features = Append(@, feature),
                  !.current_feature = None,
                  !.session_id = session_id,
                  !.failed_feature = None,
                  !.error_message = None]

\* the state mark_feature_completed saves
mark_feature_completed(state, feature, session_id) ==
    [state EXCEPT !.completed_features =
                      IF \A i \in 1..Len(@) : @[i] # feature
                      THEN Append(@, feature)
                      ELSE @,
                  !.current_feature = None,
                  !.session_id = session_id,
                  !.failed_feature = None,
                  !.error_message = None]

\* the state mark_feature_failed saves
mark_feature_failed(state, feature, error, session_id) ==
    [state EXCEPT !.current_feature = None,
                  !.failed_feature = Some(feature),
                  !.error_message = Some(error),
                  !.session_id = session_id]

\* CheckpointManager.mark_feature_started
MarkFeatureStarted(feature, session_id) ==
    /\ ckpt.clock < MaxSaves
    /\ IF load = None
       THEN no_checkpoint_state(CkptCall("mark_feature_started", feature))
       ELSE save(mark_feature_started(load[1], feature, session_id),
                 CkptCall("mark_feature_started", feature))
    /\ CkptFrame

\* CheckpointManager.mark_feature_completed
MarkFeatureCompleted(feature, session_id) ==
    /\ ckpt.clock < MaxSaves
    /\ IF load = None
       THEN no_checkpoint_state(CkptCall("mark_feature_completed", feature))
       ELSE save(mark_feature_completed(load[1], feature, session_id),
                 CkptCall("mark_feature_completed", feature))
    /\ CkptFrame

\* CheckpointManager.mark_feature_failed
MarkFeatureFailed(feature, error, session_id) ==
    /\ ckpt.clock < MaxSaves
    /\ IF load = None
       THEN no_checkpoint_state(CkptCall("mark_feature_failed", feature))
       ELSE save(mark_feature_failed(load[1], feature, error, session_id),
                 CkptCall("mark_feature_failed", feature))
    /\ CkptFrame

----------------------------------------------------------------------------
(* database.py: aggregate and group_by, statement by statement *)

\* the records the writing processes insert
WriterRecords ==
    {StoreMetrics("run-1", "rust", SampleDuration("run-1"), 1, "success",
                  None),
     StoreMetrics("run-1", "java", SampleDuration("run-1"), 5, "failure",
                  None),
     StoreMetrics("run-2", "rust", SampleDuration("run-2"), 1, "success",
                  None),
     StoreMetrics("run-3", "rust", SampleDuration("run-3"), 1, "success",
                  None)}

\* the target filters of the reading process
ReaderTargets == {None, Some("rust")}

\* no call of aggregate or group_by in progress
ReaderIdle ==
    [pc |-> "idle", call |-> "none", args |-> None, stats_table |-> {},
     result |-> None, field |-> "", groups |-> <<>>, results |-> EmptyDict]

\* what a statement of aggregate or group_by leaves alone
ReaderFrame ==
    UNCHANGED <<collectorVars, storeVars, last, rt, auxVars, fscan, measure,
                blocks, dbfile, ckpt>>

\* what the return of the call leaves alone
ReturnFrame ==
    UNCHANGED <<collectorVars, storeVars, last, rt, derived, scan, fscan,
                measure, blocks, dbfile, ckpt>>

\* whether the first SELECT of aggregate counts no row
counts_none(args) ==
    select_from(table, aggregate_conditions(args.project, args.target,
                                            args.strategy)) = {}

\* aggregate up to `if not row or row["count"] == 0: return None`: the
\* connection is opened and the first SELECT reads the committed table
AggregateSelectStats(project, target, strategy) ==
    /\ reader.pc = "idle"
    /\ db_call = NoCall
    /\ LET args == [project |-> project, target |-> target,
                    strategy |-> strategy]
       IN  reader' = [ReaderIdle EXCEPT
               !.pc = IF counts_none(args) THEN "returned" ELSE "stats",
               !.call = "aggregate",
               !.args = Some(args),
               !.stats_table = table]
    /\ ReaderFrame

\* the rest of aggregate: the second SELECT reads the table as it is
\* committed now, and the result is built from both
AggregateSelectDurations ==
    /\ reader.pc = "stats"
    /\ reader' = [reader EXCEPT
           !.pc = "returned",
           !.result = aggregate_over(reader.stats_table, table,
                                     reader.args[1].project,
                                     reader.args[1].target,
                                     reader.args[1].strategy)]
    /\ ReaderFrame

\* the connection is closed and the caller has the result
AggregateReturn ==
    /\ reader.pc = "returned"
    /\ db_call' = [op |-> "aggregate", args |-> reader.args[1],
                   result |-> reader.result]
    /\ reader' = ReaderIdle
    /\ ReturnFrame

\* the orders in which SELECT DISTINCT can return the values
distinct_orders(values) ==
    {s \in [1..Cardinality(values) -> values] :
        \A i, j \in 1..Cardinality(values) : i < j => s[i] # s[j]}

\* {kwarg: value}, as the arguments of aggregate
aggregate_kwargs(kwarg, value) ==
    [project |-> IF kwarg = "project" THEN Some(value) ELSE None,
     target |-> IF kwarg = "target" THEN Some(value) ELSE None,
     strategy |-> IF kwarg = "strategy" THEN Some(value) ELSE None]

\* group_by up to the loop: the field is checked, SELECT DISTINCT reads the
\* committed table
GroupBySelectDistinct(group_field) ==
    /\ reader.pc = "idle"
    /\ db_call = NoCall
    /\ IF group_field \notin valid_fields
       THEN reader' = [ReaderIdle EXCEPT !.pc = "raised",
                                         !.call = "group_by",
                                         !.field = group_field]
       ELSE \E groups \in distinct_orders({r[group_field] : r \in table}) :
                reader' = [ReaderIdle EXCEPT !.pc = "groups",
                                             !.call = "group_by",
                                             !.field = group_field,
                                             !.groups = groups]
    /\ ReaderFrame

\* self.aggregate(**kwargs) for the next group, first SELECT: a group that
\* counts no row now gets no entry
GroupByAggregateStats ==
    /\ reader.pc = "groups"
    /\ reader.groups # <<>>
    /\ LET args == aggregate_kwargs(kwarg_of(reader.field),
                                    Head(reader.groups))
       IN  reader' = IF counts_none(args)
                     THEN [reader EXCEPT !.groups = Tail(@)]
                     ELSE [reader EXCEPT !.pc = "group_stats",
                                         !.args = Some(args),
                                         !.stats_table = table]
    /\ ReaderFrame

\* self.aggregate(**kwargs), second SELECT, and results[value] = stats
GroupByAggregateDurations ==
    /\ reader.pc = "group_stats"
    /\ reader' = [reader EXCEPT
           !.pc = "groups",
           !.groups = Tail(@),
           !.results =
               Put(@, Head(reader.groups),
                   aggregate_over(reader.stats_table, table,
                                  reader.args[1].project,
                                  reader.args[1].target,
                                  reader.args[1].strategy)[1])]
    /\ ReaderFrame

\* group_by returns its results, or has raised ValueError
GroupByReturn ==
    /\ \/ reader.pc = "raised"
       \/ reader.pc = "groups" /\ reader.groups = <<>>
    /\ db_call' = [op |-> "group_by",
                   args |-> [group_field |-> reader.field],
                   result |-> IF reader.pc = "raised" THEN ValueError
                              ELSE reader.results]
    /\ reader' = ReaderIdle
    /\ ReturnFrame

\* db.insert(metrics) by the process that makes the read calls: between its
\* calls
CallerInsert(metrics) ==
    /\ reader.pc = "idle"
    /\ Insert(metrics)

----------------------------------------------------------------------------
(* The parts that are at rest while another one runs *)

----------------------------------------------------------------------------
(* Specifications *)

\* one collector, driven by any sequence of its calls
Init ==
    /\ CollectorInit
    /\ StoreInit
    /\ rt = RtIdle
    /\ derived = DerivedIdle
    /\ db_call = NoCall
    /\ scan = ScanIdle
    /\ fscan = FileIdle
    /\ measure = MeasureIdle
    /\ blocks = BlocksIdle
    /\ dbfile = DbFileIdle
    /\ ckpt = CkptIdle
    /\ reader = ReaderIdle

Next ==
    \/ Tick
    \/ \E n \in Phases : StartPhase(n)
    \/ \E n \in Phases : EndPhase(n)
    \/ \E m \in Modules : StartModule(m)
    \/ \E m \in Modules, a \in AttemptArgs : EndModule(m, a)
    \/ \E t \in Tools : RecordToolUse(t)
    \/ \E a \in AgentTypes : RecordSubagent(a)
    \/ RecordMessage
    \/ RecordErrorRecovery
    \/ RecordRetry
    \/ \E p \in Payloads : RecordResult(p)
    \/ \E a \in OutcomeArgs : SetOutcome(a)
    \/ Finalize

Spec == Init /\ [][Next]_vars

\* one log is parsed, at any time
LogNext ==
    \/ Tick
    \/ /\ last.op = "init"
       /\ \E log \in Logs : ParseLog(log)

LogSpec == Init /\ [][LogNext]_vars

\* one store, under any sequence of inserts and deletes
StoreNext ==
    \/ \E m \in StoreRecords : Insert(m)
    \/ \E id \in RunIds : Delete(id)

StoreSpec == Init /\ [][StoreNext]_vars

\* one record, serialised and read back
RoundTripStart ==
    /\ CollectorInit
    /\ StoreInit
    /\ RoundTripInit
    /\ derived = DerivedIdle
    /\ db_call = NoCall
    /\ scan = ScanIdle
    /\ fscan = FileIdle
    /\ measure = MeasureIdle
    /\ blocks = BlocksIdle
    /\ dbfile = DbFileIdle
    /\ ckpt = CkptIdle
    /\ reader = ReaderIdle

RoundTripNext ==
    \/ Serialize
    \/ Deserialize

RoundTripSpec == RoundTripStart /\ [][RoundTripNext]_vars

\* one record, its derived properties read
DerivedStart ==
    /\ CollectorInit
    /\ StoreInit
    /\ rt = RtIdle
    /\ DerivedInit
    /\ db_call = NoCall
    /\ scan = ScanIdle
    /\ fscan = FileIdle
    /\ measure = MeasureIdle
    /\ blocks = BlocksIdle
    /\ dbfile = DbFileIdle
    /\ ckpt = CkptIdle
    /\ reader = ReaderIdle

DerivedNext ==
    \/ ReadCacheEfficiencyRatio
    \/ ReadMatchRatePct
    \/ ReadLocExpansionRatio
    \/ ReadCostPerLoc

DerivedSpec == DerivedStart /\ [][DerivedNext]_vars

\* one store and one process, which inserts and, between its inserts, reads
\* by aggregate, query and group_by
QueryNext ==
    \/ \E m \in QueryRecords : CallerInsert(m)
    \/ \E p \in Projects, t \in Targets, s \in Strategies :
          AggregateSelectStats(p, t, s)
    \/ AggregateSelectDurations
    \/ AggregateReturn
    \/ \E p \in Projects, t \in QueryTargets, s \in Strategies,
          st \in Statuses, since \in Sinces, until \in Untils :
          Query([project |-> p, target |-> t, strategy |-> s, status |-> st,
                 since |-> since, until |-> until], DefaultLimit)
    \/ \E t \in QueryTargets, n \in Limits :
          Query([NoFilter EXCEPT !.target = t], n)
    \/ \E g \in GroupFields : GroupBySelectDistinct(g)
    \/ GroupByAggregateStats
    \/ GroupByAggregateDurations
    \/ GroupByReturn

QuerySpec == Init /\ [][QueryNext]_vars

\* one Rust file, read line by line
ScanStart ==
    /\ CollectorInit
    /\ StoreInit
    /\ rt = RtIdle
    /\ derived = DerivedIdle
    /\ db_call = NoCall
    /\ ScanInit
    /\ fscan = FileIdle
    /\ measure = MeasureIdle
    /\ blocks = BlocksIdle
    /\ dbfile = DbFileIdle
    /\ ckpt = CkptIdle
    /\ reader = ReaderIdle

ScanNext ==
    \/ \E line \in RustLines : ScanLine(line)
    \/ ScanReturn

ScanSpec == ScanStart /\ [][ScanNext]_vars

\* one Java file, read line by line and classified
JavaStart ==
    /\ CollectorInit
    /\ StoreInit
    /\ rt = RtIdle
    /\ derived = DerivedIdle
    /\ db_call = NoCall
    /\ scan = ScanIdle
    /\ FileInit("java", FilePath(<<"", "tmp">>, <<"Foo">>, ".java"))
    /\ measure = MeasureIdle
    /\ blocks = BlocksIdle
    /\ dbfile = DbFileIdle
    /\ ckpt = CkptIdle
    /\ reader = ReaderIdle

JavaNext ==
    \/ \E line \in JavaLines : JavaLine(line)
    \/ FileReturn

JavaSpec == JavaStart /\ [][JavaNext]_vars

\* one Python file, read line by line and classified
PythonStart ==
    /\ CollectorInit
    /\ StoreInit
    /\ rt = RtIdle
    /\ derived = DerivedIdle
    /\ db_call = NoCall
    /\ scan = ScanIdle
    /\ FileInit("python", FilePath(<<"", "tmp">>, <<"foo">>, ".py"))
    /\ measure = MeasureIdle
    /\ blocks = BlocksIdle
    /\ dbfile = DbFileIdle
    /\ ckpt = CkptIdle
    /\ reader = ReaderIdle

PythonNext ==
    \/ \E line \in PythonLines : PythonLine(line)
    \/ FileReturn

PythonSpec == PythonStart /\ [][PythonNext]_vars

\* one file of any of the three languages, counted and classified
FileStart ==
    /\ CollectorInit
    /\ StoreInit
    /\ rt = RtIdle
    /\ derived = DerivedIdle
    /\ db_call = NoCall
    /\ scan = ScanIdle
    /\ \/ \E path \in GoPaths : FileInit("go", path)
       \/ \E path \in JavaPaths : FileInit("java", path)
       \/ \E path \in PythonPaths : FileInit("python", path)
    /\ measure = MeasureIdle
    /\ blocks = BlocksIdle
    /\ dbfile = DbFileIdle
    /\ ckpt = CkptIdle
    /\ reader = ReaderIdle

FileNext ==
    \/ \E line \in GoLines : GoLine(line)
    \/ \E line \in JavaLines : JavaLine(line)
    \/ \E line \in PythonLines : PythonLine(line)
    \/ FileReturn

FileSpec == FileStart /\ [][FileNext]_vars

\* one directory, measured for one language
MeasureStart ==
    /\ CollectorInit
    /\ StoreInit
    /\ rt = RtIdle
    /\ derived = DerivedIdle
    /\ db_call = NoCall
    /\ scan = ScanIdle
    /\ fscan = FileIdle
    /\ MeasureInit
    /\ blocks = BlocksIdle
    /\ dbfile = DbFileIdle
    /\ ckpt = CkptIdle
    /\ reader = ReaderIdle

MeasureNext ==
    \/ \E d \in Directories, language \in Languages : MeasureLoc(d, language)
    \/ \E f \in FileUniverse : MeasureFile(f)
    \/ MeasureReturn

MeasureSpec == MeasureStart /\ [][MeasureNext]_vars

\* the code-metrics blocks of one Run Record, filled by the collector's
\* setters and by the post-hoc analyzer
BlocksNext ==
    \/ \E p, t \in LocCounts, n \in {1, 2} : RecordSourceLoc(p, t, n)
    \/ \E p, t \in LocCounts, n \in {1, 2} : RecordTargetLoc(p, t, n)
    \/ \E d \in ClocOutputs, tools \in ToolOutputs :
          AnalyzePythonSource(d, tools)
    \/ \E e \in BOOLEAN, p, t \in LocCounts, d \in ClocOutputs,
          tools \in ToolOutputs : AnalyzeRustTarget(e, <<p, t>>, d, tools)
    \/ \E e \in BOOLEAN, d, td \in ClocOutputs, tools \in ToolOutputs :
          AnalyzeJavaTarget(e, d, td, tools)
    \/ \E e \in BOOLEAN, d, td \in ClocOutputs, tools \in ToolOutputs :
          AnalyzeGoTarget(e, d, td, tools)

BlocksSpec == Init /\ [][BlocksNext]_vars

\* one database file, opened by two processes any number of times
OpenStart ==
    /\ CollectorInit
    /\ DbFileInit
    /\ rt = RtIdle
    /\ derived = DerivedIdle
    /\ db_call = NoCall
    /\ scan = ScanIdle
    /\ fscan = FileIdle
    /\ measure = MeasureIdle
    /\ blocks = BlocksIdle
    /\ ckpt = CkptIdle
    /\ reader = ReaderIdle

OpenNext ==
    \/ \E p \in Procs : InitDb(p)
    \/ \E p \in Procs : TableInfo(p)
    \/ \E p \in Procs : RunMigrations(p)
    \/ \E p \in Procs : DropStore(p)
    \/ \E m \in OpenRecords : OpenInsert(m)

OpenSpec == OpenStart /\ [][OpenNext]_vars

\* one migration directory and its checkpoint
CheckpointNext ==
    \/ \E state \in CallerStates : Save(state)
    \/ CreateInitial
    \/ Clear
    \/ \E f \in Features, s \in SessionIds : MarkFeatureStarted(f, s)
    \/ \E f \in Features, s \in SessionIds : MarkFeatureCompleted(f, s)
    \/ \E f \in Features, e \in ErrorMessages, s \in SessionIds :
           MarkFeatureFailed(f, e, s)

CheckpointStart ==
    /\ CollectorInit
    /\ StoreInit
    /\ rt = RtIdle
    /\ derived = DerivedIdle
    /\ db_call = NoCall
    /\ scan = ScanIdle
    /\ fscan = FileIdle
    /\ measure = MeasureIdle
    /\ blocks = BlocksIdle
    /\ dbfile = DbFileIdle
    /\ \E found \in FoundFiles :
           ckpt = [CkptIdle EXCEPT !.dir = found # None, !.file = found]
    /\ reader = ReaderIdle

CheckpointSpec == CheckpointStart /\ [][CheckpointNext]_vars

\* one process calling aggregate and group_by while others insert, replace
\* and delete
ConcurrentNext ==
    \/ \E t \in ReaderTargets : AggregateSelectStats(None, t, None)
    \/ AggregateSelectDurations
    \/ AggregateReturn
    \/ GroupBySelectDistinct("target_language")
    \/ GroupByAggregateStats
    \/ GroupByAggregateDurations
    \/ GroupByReturn
    \/ \E m \in WriterRecords : Insert(m)
    \/ \E id \in RunIds : Delete(id)

ConcurrentSpec == Init /\ [][ConcurrentNext]_vars

----------------------------------------------------------------------------
(* Properties *)

RowsOf(id) == {r \in table : r.run_id = id}

\* C1: after any sequence of inserts (and deletes) the table holds exactly
\* one row for every run id whose latest operation was an insert and none for
\* the others; that row's columns and the record get() returns are those of
\* the record of the latest insert; an insert of a run id that is already
\* present leaves count() unchanged.
C1_InsertIsUpsert ==
    /\ \A id \in RunIds :
         IF db_last[id] = None
         THEN RowsOf(id) = {} /\ get(id) = None
         ELSE LET m == db_last[id][1]
              IN  /\ Cardinality(RowsOf(id)) = 1
                  /\ \A r \in RowsOf(id) :
                       /\ r.project_name = m.identity.project_name
                       /\ r.source_language = m.identity.source_language
                       /\ r.target_language = m.identity.target_language
                       /\ r.strategy = m.identity.strategy
                       /\ r.started_at = m.identity.started_at
                       /\ r.completed_at = m.identity.completed_at
                       /\ r.duration_ms = m.timing.wall_clock_duration_ms
                       /\ r.cost_usd = m.cost.total_cost_usd
                       /\ r.line_coverage_pct =
                              m.quality_gates.coverage.line_coverage_pct
                       /\ r.status = m.outcome.status
                       /\ r.source_loc = m.source_metrics.production_loc
                       /\ r.target_loc = m.target_metrics.production_loc
                  /\ get(id) = Some(m)
    /\ (last.op = "insert" /\ last.arg.present)
          => count = last.arg.count_before

\* a second insert of a run id, with another cost, into a table of two rows
C1_Witness ==
    /\ last.op = "insert"
    /\ last.arg.present
    /\ last.arg.count_before = 2
    /\ count = 2
    /\ get(last.name)[1].cost.total_cost_usd = 5
    /\ get(last.name)[1].quality_gates.coverage.line_coverage_pct = None

\* C2: from_json(to_json(r)) equals r in every field, and an Optional field
\* that is None in r is None in the result.
C2_RoundTrip ==
    rt.pc = "done" =>
        /\ ~Raised(rt.back)
        /\ rt.back = rt.rec
        /\ \A k \in IdentityOptional :
             rt.rec.identity[k] = None => rt.back.identity[k] = None
        /\ \A k \in CoverageOptional :
             rt.rec.quality_gates.coverage[k] = None
                => rt.back.quality_gates.coverage[k] = None
        /\ \A b \in {"source_metrics", "target_metrics"} :
             rt.rec[b].maintainability_index = None
                => rt.back[b].maintainability_index = None

\* a record with absent optional fields, a phase map, two module timings and
\* a feature result has been read back
C2_Witness ==
    /\ rt.pc = "done"
    /\ rt.rec.identity.completed_at = None
    /\ rt.rec.quality_gates.coverage.line_coverage_pct = None
    /\ rt.rec.source_metrics.maintainability_index = None
    /\ DOMAIN rt.rec.timing.phase_durations_ms = {"setup", "reporting"}
    /\ Len(rt.rec.timing.module_durations) = 2
    /\ Len(rt.rec.io_contract.feature_results) = 1
    /\ rt.back = rt.rec

\* C3 (as claimed): no call made after finalize() returned changes a field
\* of the record it returned: every returned record still reads as it did
\* when it was returned.
C3_ReturnedRecordImmutable ==
    \A i \in 1..Len(returned) : Value(returned[i]) = hist.snaps[i]

\* the accumulated counters of a record
Counters(v) ==
    <<v.agent.tool_invocations, v.agent.subagent_invocations,
      v.agent.total_messages, v.agent.retry_count,
      v.agent.error_recovery_events, v.agent.total_turns, v.tokens, v.cost,
      v.timing.phase_durations_ms, v.timing.module_durations>>

\* a record without its completion timestamp
WithoutCompletionTime(v) == [v EXCEPT !.identity.completed_at = None]

\* the first record of the run of consecutive finalize() calls that is under
\* way
FirstOfRun == hist.snaps[Len(hist.snaps) - hist.run + 1]

\* C4: in a run of consecutive finalize() calls (time may pass between
\* them, no other call is made) no call raises, every call returns the
\* accumulated counters the first call of the run returned, and the records
\* returned differ in the completion timestamp only.
C4_OnlyCompletionTimeDiffers ==
    /\ last.op = "finalize" => ~last.raised
    /\ \A i \in 1..Len(hist.snaps) :
         i > Len(hist.snaps) - hist.run
            => /\ Counters(hist.snaps[i]) = Counters(FirstOfRun)
               /\ WithoutCompletionTime(hist.snaps[i])
                    = WithoutCompletionTime(FirstOfRun)

\* what repeated finalize() calls do keep: no call raises, and every call
\* returns the accumulated counters the first call of the run returned
FinalizeKeepsCounters ==
    /\ last.op = "finalize" => ~last.raised
    /\ \A i \in 1..Len(hist.snaps) :
         i > Len(hist.snaps) - hist.run
            => Counters(hist.snaps[i]) = Counters(FirstOfRun)

\* two finalize() calls in a row, after a message was recorded, with
\* different completion times
RepeatedFinalizeReached ==
    /\ hist.run = 2
    /\ hist.message_calls = 1
    /\ hist.snaps[1].agent.total_messages = 1
    /\ hist.snaps[1].identity.completed_at
         # hist.snaps[2].identity.completed_at

\* the fields of the collector
collectorFields ==
    <<identity, timing, cost, tokens, agent, outcome, phase_start_times,
      module_start_times, module_attempts, start_time, message_count>>

\* C5: end_phase(name) without an earlier start_phase(name) and
\* end_module(name) without an earlier start_module(name) raise nothing and
\* change no field of the collector.
C5_EndWithoutStartIsNoOp ==
    [][/\ \A n \in Phases :
            (EndPhase(n) /\ n \notin DOMAIN phase_start_times)
               => (UNCHANGED collectorFields /\ ~last'.raised)
       /\ \A m \in Modules, a \in AttemptArgs :
            (EndModule(m, a) /\ m \notin DOMAIN module_start_times)
               => (UNCHANGED collectorFields /\ ~last'.raised)]_vars

\* end_phase of a phase never started, after another phase was timed
C5_Witness ==
    /\ last.op = "end_phase"
    /\ last.name \notin DOMAIN phase_start_times
    /\ DOMAIN timing.phase_durations_ms # {}
    /\ last.name \notin DOMAIN timing.phase_durations_ms

\* C6 (as claimed): end_module(name, attempts) after start_module(name)
\* appends an entry for name whose attempt count is the supplied value, for
\* every supplied integer, and the number of start_module(name) calls when
\* none is supplied.
C6_AttemptsAsSupplied ==
    (last.op = "end_module" /\ last.name \in DOMAIN module_start_times) =>
        LET entry == timing.module_durations[Len(timing.module_durations)]
        IN  /\ entry.module_name = last.name
            /\ entry.attempts =
                  IF last.arg # None THEN last.arg[1]
                  ELSE hist.module_starts[last.name]

\* C7: the tool and sub-agent maps, retry_count and error_recovery_events
\* equal the numbers of the respective calls made so far, whatever other
\* calls were made, and every record finalize() returned carried as
\* total_messages the number of record_message calls made before it.
C7_CountsEqualCalls ==
    /\ \A t \in Tools : Get(agent.tool_invocations, t, 0) = hist.tool_calls[t]
    /\ DOMAIN agent.tool_invocations = {t \in Tools : hist.tool_calls[t] > 0}
    /\ \A a \in AgentTypes :
         Get(agent.subagent_invocations, a, 0) = hist.subagent_calls[a]
    /\ DOMAIN agent.subagent_invocations
         = {a \in AgentTypes : hist.subagent_calls[a] > 0}
    /\ agent.retry_count = hist.retry_calls
    /\ agent.error_recovery_events = hist.recovery_calls
    /\ \A i \in 1..Len(hist.snaps) :
         hist.snaps[i].agent.total_messages = hist.messages_before[i]

\* a tool was used twice and finalize() was called
C7_Witness ==
    /\ last.op = "finalize"
    /\ hist.tool_calls["Bash"] = 2
    /\ hist.snaps[1].agent.tool_invocations["Bash"] = 2

\* a key/value payload whose usage, when present, is a dict
KeyValuePayload(p) == p.kind \in {"object", "dict"} /\ p.usage.kind # "notdict"

Present(d, k) == IF k \in DOMAIN d THEN d[k] ELSE 0

\* C8: record_result of a key/value payload leaves the two durations, the
\* cost, the turn count and the four token counters at the payload's
\* values, 0 for every missing key, and the status at success exactly when
\* the subtype is "success"; it does not raise.
C8_ResultExtraction ==
    (last.op = "record_result" /\ KeyValuePayload(last.arg)) =>
        LET p == last.arg
            u == IF p.usage.kind = "dict" THEN p.usage.d ELSE EmptyDict
        IN  /\ ~last.raised
            /\ timing.wall_clock_duration_ms = Present(p.attrs, "duration_ms")
            /\ timing.api_duration_ms = Present(p.attrs, "duration_api_ms")
            /\ cost.total_cost_usd = Present(p.attrs, "total_cost_usd")
            /\ agent.total_turns = Present(p.attrs, "num_turns")
            /\ tokens.input_tokens = Present(u, "input_tokens")
            /\ tokens.output_tokens = Present(u, "output_tokens")
            /\ tokens.cache_creation_input_tokens
                 = Present(u, "cache_creation_input_tokens")
            /\ tokens.cache_read_input_tokens
                 = Present(u, "cache_read_input_tokens")
            /\ (outcome.status = "success") <=> (p.subtype = Some("success"))
            /\ outcome.status \in {"success", "failure"}

\* a payload without a subtype and without usage, recorded after the
\* outcome had been set to partial
C8_Witness ==
    /\ last.op = "record_result"
    /\ last.arg.kind = "object"
    /\ last.arg.subtype = None
    /\ last.arg.usage.kind = "missing"
    /\ "duration_ms" \notin DOMAIN last.arg.attrs
    /\ outcome.modules_completed = 3
    /\ outcome.status = "failure"
    /\ timing.wall_clock_duration_ms = 0

\* C9 (as claimed): when the latest record_result supplied a duration d,
\* the record finalize() returns has wall-clock duration d.
C9_SuppliedDurationKept ==
    (last.op = "finalize" /\ hist.supplied # None)
        => timing.wall_clock_duration_ms = hist.supplied[1]

\* C10 (as claimed): the phase-duration entry of n equals the time that
\* passed between the latest start_phase(n) before the end_phase(n) that
\* wrote it and that end_phase(n).
C10_DurationIsElapsed ==
    \A n \in DOMAIN hist.phase_end :
        timing.phase_durations_ms[n] * UnitsPerMs
            = hist.phase_end[n].t1 - hist.phase_end[n].t0

\* C10 (amended): the entry is the elapsed time in milliseconds with its
\* fraction dropped: never negative, never more than the time that passed,
\* and less than one millisecond short of it; a phase has an entry exactly
\* when an end_phase found its start, and the record finalize() returns
\* holds these entries.
C10_DurationTruncated ==
    /\ DOMAIN timing.phase_durations_ms = DOMAIN hist.phase_end
    /\ \A n \in DOMAIN hist.phase_end :
         LET elapsed == hist.phase_end[n].t1 - hist.phase_end[n].t0
             d == timing.phase_durations_ms[n]
         IN  /\ elapsed >= 0
             /\ d >= 0
             /\ d * UnitsPerMs <= elapsed
             /\ elapsed < (d + 1) * UnitsPerMs
    /\ last.op = "finalize" =>
         hist.snaps[Len(hist.snaps)].timing.phase_durations_ms
            = timing.phase_durations_ms

\* a phase that lasted a millisecond and a fraction, then finalize()
C10_Witness ==
    /\ last.op = "finalize"
    /\ "setup" \in DOMAIN hist.phase_end
    /\ hist.phase_end["setup"].t1 - hist.phase_end["setup"].t0
         > UnitsPerMs
    /\ hist.snaps[1].timing.phase_durations_ms["setup"] = 1

\* the property most recently read off the record, when it is prop
HasRead(prop) ==
    /\ derived.pc = "record"
    /\ derived.read # None
    /\ derived.read[1].prop = prop

\* C12 (as stated): the match rate read off a record is passed / total, and
\* 0 when the total is 0.
C12_MatchRateIsFraction ==
    HasRead("match_rate_pct") =>
        LET io == derived.rec.io_contract
            v == derived.read[1].value
        IN  IF io.total_test_cases = 0 THEN v.num = 0
            ELSE v.num * io.total_test_cases = io.passed * v.den

\* C12 (amended): the match rate read off a record is a percentage,
\* (passed / total) * 100, and 0 when the total is 0.
C12_MatchRateIsPercentage ==
    HasRead("match_rate_pct") =>
        LET io == derived.rec.io_contract
            v == derived.read[1].value
        IN  /\ v.den > 0
            /\ IF io.total_test_cases = 0 THEN v.num = 0
               ELSE v.num * io.total_test_cases = io.passed * 100 * v.den

\* one of two cases passed: the match rate read is 50
C12_Witness ==
    /\ HasRead("match_rate_pct")
    /\ derived.rec.io_contract.total_test_cases = 2
    /\ derived.rec.io_contract.passed = 1
    /\ RatioEq(derived.read[1].value, Ratio(50, 1))

\* C13: the cache efficiency ratio read off a record is 0 when the cache-read
\* and the fresh input tokens are both 0, and cacheRead / (cacheRead + fresh)
\* otherwise, for all non-negative counts.
C13_CacheEfficiencyRatio ==
    HasRead("cache_efficiency_ratio") =>
        LET cached == derived.rec.tokens.cache_read_input_tokens
            fresh == derived.rec.tokens.input_tokens
            v == derived.read[1].value
        IN  /\ v.den > 0
            /\ IF cached = 0 /\ fresh = 0 THEN v.num = 0
               ELSE v.num * (cached + fresh) = cached * v.den

\* one cache read against two fresh tokens: the ratio read is 1/3; and the
\* ratio of a record without fresh tokens is 1
C13_Witness ==
    /\ HasRead("cache_efficiency_ratio")
    /\ derived.rec.tokens.cache_read_input_tokens = 1
    /\ derived.rec.tokens.input_tokens = 2
    /\ RatioEq(derived.read[1].value, Ratio(1, 3))

\* the fields of the dataclasses TokenMetrics and IOContractMetrics
TokenFields == DOMAIN TokenMetrics
IOContractFields == DOMAIN IOContractMetrics

\* C11 (as stated): derived ratios are never stored: the serialised record
\* holds no computed key and no column of a stored row holds a derived value.
C11_DerivedNeverStored ==
    \A r \in table :
        /\ "io_match_rate" \notin DOMAIN r
        /\ "loc_expansion_ratio" \notin DOMAIN r.metrics_json
        /\ "cost_per_loc" \notin DOMAIN r.metrics_json
        /\ DOMAIN r.metrics_json.tokens = TokenFields
        /\ DOMAIN r.metrics_json.io_contract = IOContractFields

\* C11 (amended): the derived ratios are not fields of the Run Record, which
\* is read back with its stored counters only, but copies of them are stored:
\* the serialised record carries loc_expansion_ratio, cost_per_loc,
\* tokens.cache_efficiency_ratio and io_contract.match_rate_pct, and the
\* column io_match_rate carries the match rate; every stored copy equals the
\* value derived from the record's own fields.
C11_DerivedStoredAsComputed ==
    \A r \in table :
        LET doc == r.metrics_json
            m == from_json(doc)
        IN  /\ DOMAIN m.tokens = TokenFields
            /\ DOMAIN m.io_contract = IOContractFields
            /\ "loc_expansion_ratio" \in DOMAIN doc
            /\ "cost_per_loc" \in DOMAIN doc
            /\ "cache_efficiency_ratio" \in DOMAIN doc.tokens
            /\ "match_rate_pct" \in DOMAIN doc.io_contract
            /\ doc.loc_expansion_ratio = loc_expansion_ratio(m)
            /\ doc.cost_per_loc = cost_per_loc(m)
            /\ doc.tokens.cache_efficiency_ratio
                   = cache_efficiency_ratio(m.tokens)
            /\ doc.io_contract.match_rate_pct = match_rate_pct(m.io_contract)
            /\ r.io_match_rate = match_rate_pct(m.io_contract)

\* a record with 7 of 10 cases passed, 600 target lines for 500 source lines
\* and 200 of 1200 input tokens read from the cache has been inserted
C11_Witness ==
    /\ last.op = "insert"
    /\ \E r \in table :
         /\ r.run_id = last.name
         /\ RatioEq(r.io_match_rate, Ratio(70, 1))
         /\ RatioEq(r.metrics_json.loc_expansion_ratio, Ratio(6, 5))
         /\ RatioEq(r.metrics_json.tokens.cache_efficiency_ratio, Ratio(1, 6))

\* the filters of the aggregate or query call answered last
CallFilters ==
    IF db_call.op = "aggregate"
    THEN [NoFilter EXCEPT !.project = db_call.args.project,
                          !.target = db_call.args.target,
                          !.strategy = db_call.args.strategy]
    ELSE db_call.args.f

\* the rows the call's WHERE clause selects
MatchedRows == select_where(query_conditions(CallFilters))

\* a row satisfies every filter that was supplied, whatever its value
Satisfies(r, f) ==
    /\ f.project # None => r.project_name = f.project[1]
    /\ f.target # None => r.target_language = f.target[1]
    /\ f.strategy # None => r.strategy = f.strategy[1]
    /\ f.status # None => r.status = f.status[1]
    /\ f.since # None => r.started_at >= f.since[1]
    /\ f.until # None => r.started_at <= f.until[1]

SatisfyingRows == {r \in table : Satisfies(r, CallFilters)}

\* the ascending list of the durations of a set of rows
AscendingDurations(rows) ==
    LET n == Cardinality(rows)
        s == CHOOSE s \in [1..n -> rows] :
                 /\ \A i, j \in 1..n : i # j => s[i] # s[j]
                 /\ \A i, j \in 1..n :
                      i < j => s[i].duration_ms <= s[j].duration_ms
    IN  [i \in 1..n |-> s[i].duration_ms]

\* q = v[f] + (v[c] - v[f]) * (k - f) for k = (n-1)*p/100, f = floor(k),
\* c = min(f+1, n-1), on the list v indexed from 0
IsInterpolated(q, v, p) ==
    LET n == Len(v)
        f == CHOOSE f \in 0..(n - 1) :
                 100 * f <= (n - 1) * p /\ (n - 1) * p < 100 * (f + 1)
        c == IF f + 1 < n - 1 THEN f + 1 ELSE n - 1
    IN  /\ q.den > 0
        /\ q.num * 100
             = q.den * (100 * v[f + 1]
                          + (v[c + 1] - v[f + 1]) * ((n - 1) * p - 100 * f))

\* C14: the median and the 95th percentile aggregate reports are the linear
\* interpolation v[f] + (v[c] - v[f]) * (k - f) over the ascending durations
\* v of the matched rows; for [60000, 120000, 180000] the median is 120000,
\* the mean 120000 and the 95th percentile 174000.
C14_PercentileInterpolated ==
    (db_call.op = "aggregate" /\ db_call.result # None) =>
        LET stats == db_call.result[1]
            v == AscendingDurations(MatchedRows)
        IN  /\ Len(v) >= 1
            /\ IsInterpolated(stats.median_duration_ms, v, 50)
            /\ IsInterpolated(stats.p95_duration_ms, v, 95)
            /\ v = <<60000, 120000, 180000>> =>
                 /\ RatioEq(stats.median_duration_ms, Ratio(120000, 1))
                 /\ RatioEq(stats.avg_duration_ms, Ratio(120000, 1))
                 /\ RatioEq(stats.p95_duration_ms, Ratio(174000, 1))

\* aggregate() over three runs of 60000, 120000 and 180000 ms has reported
\* a 95th percentile of 174000
C14_Witness ==
    /\ db_call.op = "aggregate"
    /\ db_call.result # None
    /\ db_call.result[1].count = 3
    /\ AscendingDurations(MatchedRows) = <<60000, 120000, 180000>>
    /\ db_call.result[1].p95_duration_ms = Ratio(174000, 1)
    /\ db_call.result[1].median_duration_ms = Ratio(120000, 1)

\* C15: aggregate returns None exactly when no stored row satisfies the
\* filters, and query returns the empty list then; otherwise the statistics
\* count the satisfying rows and total their costs.
C15_AbsentIffNoMatch ==
    /\ db_call.op = "aggregate" =>
         IF SatisfyingRows = {} THEN db_call.result = None
         ELSE /\ db_call.result # None
              /\ db_call.result[1].count = Cardinality(SatisfyingRows)
              /\ db_call.result[1].total_cost_usd
                   = SumRat([r \in SatisfyingRows |-> Ratio(r.cost_usd, 1)])
    /\ (db_call.op = "query" /\ SatisfyingRows = {}) => db_call.result = <<>>

\* C16: the mean coverage aggregate reports is the mean over the matched
\* rows whose line coverage is present, and is absent when none has one.
C16_CoverageMeanSkipsAbsent ==
    (db_call.op = "aggregate" /\ db_call.result # None) =>
        LET present == {r \in MatchedRows : r.line_coverage_pct # None}
            mean == db_call.result[1].avg_coverage_pct
        IN  IF present = {} THEN mean = None
            ELSE /\ mean # None
                 /\ mean[1].den > 0
                 /\ mean[1].num * Cardinality(present)
                      = mean[1].den
                          * SumRat([r \in present |->
                                      Ratio(r.line_coverage_pct[1], 1)]).num

\* three matched rows, one without coverage and two with 85 and 75: the mean
\* coverage reported is 80
C16_Witness ==
    /\ db_call.op = "aggregate"
    /\ db_call.result # None
    /\ db_call.result[1].count = 3
    /\ \E r \in MatchedRows : r.line_coverage_pct = None
    /\ \E r \in MatchedRows : r.line_coverage_pct = Some(85)
    /\ \E r \in MatchedRows : r.line_coverage_pct = Some(75)
    /\ db_call.result[1].avg_coverage_pct = Some(Ratio(80, 1))

\* C17: group_by with a field outside project_name, target_language and
\* strategy raises ValueError, whatever the table holds, and returns no
\* mapping.
C17_GroupByRejectsOtherFields ==
    (/\ db_call.op = "group_by"
     /\ db_call.args.group_field
            \notin {"project_name", "target_language", "strategy"})
        => db_call.result = ValueError

\* group_by("status") on a table of two rows has raised
C17_Witness ==
    /\ db_call.op = "group_by"
    /\ db_call.args.group_field = "status"
    /\ Cardinality(table) = 2
    /\ db_call.result = ValueError

RECURSIVE SumCounts(_)
SumCounts(groups) ==
    IF DOMAIN groups = {} THEN 0
    ELSE LET x == CHOOSE x \in DOMAIN groups : TRUE
         IN  groups[x].count
               + SumCounts([y \in (DOMAIN groups) \ {x} |-> groups[y]])

\* C18: group_by of an allowed field maps exactly the distinct values of the
\* field among the stored rows, each to the statistics of the rows holding
\* that value, so that the counts of the groups add up to count().
C18_GroupsPartitionRows ==
    (/\ db_call.op = "group_by"
     /\ db_call.args.group_field
            \in {"project_name", "target_language", "strategy"})
        => LET field == db_call.args.group_field
               groups == db_call.result
           IN  /\ DOMAIN groups = {r[field] : r \in table}
               /\ \A x \in DOMAIN groups :
                    /\ groups[x].count
                         = Cardinality({r \in table : r[field] = x})
                    /\ groups[x].total_cost_usd
                         = SumRat([r \in {r \in table : r[field] = x} |->
                                      Ratio(r.cost_usd, 1)])
               /\ SumCounts(groups) = count

\* the smaller of two integers
Min(a, b) == IF a < b THEN a ELSE b

\* C19: query returns only records that satisfy every supplied filter, in
\* descending order of start time, and exactly min(limit, matching rows) of
\* them.
C19_QueryFiltersAndLimit ==
    db_call.op = "query" =>
        LET f == db_call.args.f
            res == db_call.result
        IN  /\ \A i \in 1..Len(res) :
                 /\ f.project # None =>
                        res[i].identity.project_name = f.project[1]
                 /\ f.target # None =>
                        res[i].identity.target_language = f.target[1]
                 /\ f.strategy # None =>
                        res[i].identity.strategy = f.strategy[1]
                 /\ f.status # None => res[i].outcome.status = f.status[1]
                 /\ f.since # None =>
                        res[i].identity.started_at >= f.since[1]
                 /\ f.until # None =>
                        res[i].identity.started_at <= f.until[1]
            /\ \A i, j \in 1..Len(res) :
                 i < j => res[i].identity.started_at
                            >= res[j].identity.started_at
            /\ Len(res) <= db_call.args.limit
            /\ Len(res) = Min(db_call.args.limit,
                              Cardinality(SatisfyingRows))

\* the running brace depth after line i: opens minus closes, summed over the
\* lines that are neither blank nor comments
RECURSIVE RunningDepth(_, _)
RunningDepth(lines, i) ==
    IF i = 0 THEN 0
    ELSE RunningDepth(lines, i - 1)
           + (IF lines[i].skip THEN 0
              ELSE lines[i].opens - lines[i].closes)

\* a test-module marker line
IsMarker(line) ==
    ~line.skip /\ (line.cfg_test \/ (line.mod_tests /\ line.opens > 0))

\* the test region open after line i: None, or the base depth b of the region,
\* which is the depth at which its marker line was met; the region stays open
\* until a later line leaves the depth at b or below
RECURSIVE TestRegion(_, _)
TestRegion(lines, i) ==
    IF i = 0 THEN None
    ELSE LET before == TestRegion(lines, i - 1)
         IN  IF lines[i].skip THEN before
             ELSE IF before = None
             THEN IF IsMarker(lines[i])
                  THEN Some(RunningDepth(lines, i - 1))
                  ELSE None
             ELSE IF RunningDepth(lines, i) <= before[1] THEN None
             ELSE before

CountOf(class) ==
    Cardinality({i \in 1..Len(scan.counted) : scan.counted[i] = class})

\* C20: a marker line met outside a test region at depth b and every counted
\* line after it are counted as test until a line leaves the running depth at
\* b or below; deeper braces do not end the region; the lines after its end,
\* like those before it, are counted as production; blank and comment lines
\* are counted as neither.
C20_TestRegionByBraceDepth ==
    scan.pc # "idle" =>
        /\ \A i \in 1..Len(scan.lines) :
             LET line == scan.lines[i]
                 before == TestRegion(scan.lines, i - 1)
             IN  scan.counted[i] =
                     IF line.skip THEN "skip"
                     ELSE IF before # None \/ IsMarker(line) THEN "test"
                     ELSE "prod"
        /\ \A i \in 1..Len(scan.lines) :
             (/\ i > 1
              /\ scan.counted[i] = "prod"
              /\ \E j \in 1..(i - 1) : scan.counted[j] = "test")
                 => \E j \in 1..(i - 1), b \in (-MaxLines)..MaxLines :
                      /\ scan.counted[j] = "test"
                      /\ TestRegion(scan.lines, j - 1) = Some(b)
                      /\ RunningDepth(scan.lines, j) <= b
                      /\ \A k \in (j + 1)..(i - 1) :
                           scan.counted[k] # "test"
        /\ scan.prod_loc = CountOf("prod")
        /\ scan.test_loc = CountOf("test")

\* a marker at depth 0, a nested block inside the test module, the closing
\* brace of the module, and a production line after it: (1, 4) is returned
C20_Witness ==
    /\ scan.pc = "returned"
    /\ [i \in 1..Len(scan.lines) |-> scan.lines[i].text]
         = <<"mod tests {", "fn f() {", "}", "}", "x;">>
    /\ scan.counted = <<"test", "test", "test", "test", "prod">>
    /\ scan.prod_loc = 1
    /\ scan.test_loc = 4

\* the lines that are neither blank nor comments
Countable == {i \in 1..Len(scan.lines) : ~scan.lines[i].skip}

\* the countable lines that are test-module markers
Markers == {i \in Countable : IsMarker(scan.lines[i])}

\* C21: a Rust file without a test-module marker has test count 0 and every
\* non-blank, non-comment line of it is production; a file with a production
\* line before its first marker and a brace-delimited block after the marker
\* has a nonzero production count and a nonzero test count.
C21_MarkerSplitsProductionAndTest ==
    scan.pc = "returned" =>
        /\ Markers = {} =>
             /\ scan.test_loc = 0
             /\ scan.prod_loc = Cardinality(Countable)
             /\ \A i \in Countable : scan.counted[i] = "prod"
        /\ (\E m \in Markers, i, o, c \in Countable :
              /\ \A n \in Markers : m <= n
              /\ i < m
              /\ m <= o /\ o < c
              /\ scan.lines[o].opens > 0
              /\ scan.lines[c].closes > 0)
             => scan.prod_loc > 0 /\ scan.test_loc > 0

\* a production line, then "#[cfg(test)]" and a test function in braces:
\* (1, 3) is returned
C21_Witness ==
    /\ scan.pc = "returned"
    /\ [i \in 1..Len(scan.lines) |-> scan.lines[i].text]
         = <<"x;", "#[cfg(test)]", "fn f() {", "}">>
    /\ scan.prod_loc = 1
    /\ scan.test_loc = 3

\* C29: for every Rust file the production count plus the test count is the
\* number of lines that are non-blank and do not start with "//": each such
\* line is counted in exactly one category, and no other line is counted.
C29_EveryCountableLineCountedOnce ==
    scan.pc # "idle" =>
        /\ scan.prod_loc + scan.test_loc = Cardinality(Countable)
        /\ scan.prod_loc = CountOf("prod")
        /\ scan.test_loc = CountOf("test")
        /\ \A i \in 1..Len(scan.lines) :
             (i \in Countable) = (scan.counted[i] \in {"prod", "test"})

\* markers at two depths, an unbalanced closing brace and a comment line:
\* four countable lines, three of them test and one production
C29_Witness ==
    /\ scan.pc = "returned"
    /\ [i \in 1..Len(scan.lines) |-> scan.lines[i].text]
         = <<"mod tests {", "}", "// }", "}", "#[cfg(test)]">>
    /\ scan.prod_loc = 1
    /\ scan.test_loc = 3

\* the lines of the file read so far that the counter counted
LocLines == {i \in 1..Len(fscan.lines) : fscan.counted[i] = "loc"}

\* for the Java language: the line opens a block comment and leaves it open
JavaCommentOpener(line) == line.text = "/*"

\* for the Java language: whether a block comment is open after line i
RECURSIVE InBlockComment(_, _)
InBlockComment(lines, i) ==
    IF i = 0 THEN FALSE
    ELSE IF InBlockComment(lines, i - 1) THEN ~lines[i].close
    ELSE JavaCommentOpener(lines[i])

\* line i is the opening line, an inner line or the closing line of a block
\* comment, or a block comment on one line
InJavaComment(lines, i) ==
    \/ InBlockComment(lines, i - 1)
    \/ JavaCommentOpener(lines[i])
    \/ lines[i].text = "/* c */"

\* every "*/" closes a comment that is open
JavaWellFormed(lines) ==
    \A i \in 1..Len(lines) :
        lines[i].text = "*/" => InBlockComment(lines, i - 1)

\* the statement of C22 for the lines read so far
JavaCountsOutsideComments ==
    /\ \A i \in 1..Len(fscan.lines) :
         LET line == fscan.lines[i]
         IN  /\ InJavaComment(fscan.lines, i) => fscan.counted[i] = "skip"
             /\ (~InJavaComment(fscan.lines, i) /\ ~line.blank /\ ~line.slashes)
                    => fscan.counted[i] = "loc"
    /\ fscan.loc = Cardinality(LocLines)

\* C22: in a Java file no line of a block comment (opening, inner, closing) is
\* counted, counting resumes on the first line after the comment closes, and
\* every non-blank line outside block comments that is not a "//" comment is
\* counted exactly once.
C22_BlockCommentsSkipped ==
    (fscan.counter = "java" /\ JavaWellFormed(fscan.lines))
        => JavaCountsOutsideComments

\* the same for files in which "/*" stands only where it opens a comment
JavaPlainFilesCounted ==
    (/\ fscan.counter = "java"
     /\ JavaWellFormed(fscan.lines)
     /\ \A i \in 1..Len(fscan.lines) :
          fscan.lines[i].open =>
              fscan.lines[i].text \in {"/*", "/* c */"})
        => JavaCountsOutsideComments

\* for the Python language: the triple-quoted literal open after line i, None
\* or its delimiter q and whether it is a documentation block (doc) or a
\* string that is part of a statement
RECURSIVE OpenLiteral(_, _)
OpenLiteral(lines, i) ==
    IF i = 0 THEN None
    ELSE LET before == OpenLiteral(lines, i - 1)
             line == lines[i]
         IN  IF before = None
             THEN IF line.text \in {DQ, SQ}
                  THEN Some([q |-> line.text, doc |-> TRUE])
                  ELSE IF line.text = "S = \"\"\""
                  THEN Some([q |-> DQ, doc |-> FALSE])
                  ELSE None
             ELSE IF delimiter_count(line, before[1].q) = 1 THEN None
             ELSE before

\* line i lies inside a triple-quoted string that is not a documentation block
InPlainString(lines, i) ==
    LET before == OpenLiteral(lines, i - 1)
    IN  before # None /\ ~before[1].doc

\* line i is a documentation block on one line, or the opening line, an inner
\* line or the closing line of a longer one
InDocBlock(lines, i) ==
    LET before == OpenLiteral(lines, i - 1)
    IN  IF before = None
        THEN lines[i].text \in {DQ, SQ, "\"\"\"doc\"\"\""}
        ELSE before[1].doc

\* inside a literal no line holds its delimiter twice
PythonWellFormed(lines) ==
    \A i \in 1..Len(lines) :
        LET before == OpenLiteral(lines, i - 1)
        IN  before # None => delimiter_count(lines[i], before[1].q) < 2

\* the statement of C23 for the lines read so far
PythonCountsOutsideDocBlocks ==
    /\ \A i \in 1..Len(fscan.lines) :
         LET line == fscan.lines[i]
         IN  /\ InDocBlock(fscan.lines, i) => fscan.counted[i] = "skip"
             /\ (/\ ~InDocBlock(fscan.lines, i)
                 /\ ~InPlainString(fscan.lines, i)
                 /\ ~line.blank
                 /\ ~line.hash) => fscan.counted[i] = "loc"
    /\ fscan.loc = Cardinality(LocLines)

\* C23: in a Python file no line of a triple-quoted documentation block is
\* counted (a block on one line, or the opening, inner and closing lines of a
\* longer one), counting resumes on the first line after the closing
\* delimiter, and every non-blank, non-"#" line outside such blocks is counted
\* exactly once.
C23_DocBlocksSkipped ==
    (fscan.counter = "python" /\ PythonWellFormed(fscan.lines))
        => PythonCountsOutsideDocBlocks

\* the same for files whose triple quotes all delimit documentation blocks
PythonDocOnlyFilesCounted ==
    (/\ fscan.counter = "python"
     /\ PythonWellFormed(fscan.lines)
     /\ \A i \in 1..Len(fscan.lines) : fscan.lines[i].text # "S = \"\"\"")
        => PythonCountsOutsideDocBlocks

\* the path holds a directory named test or tests
InTestDirectory(path) ==
    \E i \in 1..Len(path.dirs) : Lower(path.dirs[i]) \in {"test", "tests"}

\* the test rule of each profile: B, the name ends with the test suffix;
\* A and C, a test directory in the path or a test name
MatchesTestRule(counter, path) ==
    CASE counter = "go" -> name_ends_with(path, "_test", ".go")
      [] counter = "java" ->
            \/ InTestDirectory(path)
            \/ stem_ends_with(path, "Test")
            \/ starts_with(path, "Test")
      [] counter = "python" ->
            \/ InTestDirectory(path)
            \/ starts_with(path, "test_")
            \/ name_ends_with(path, "_test", ".py")

\* the statement of C24 for the file that was counted
FileIsWhollyTestOrProduction ==
    LET production == fscan.result[1][1]
        test == fscan.result[1][2]
    IN  /\ production = 0 \/ test = 0
        /\ IF MatchesTestRule(fscan.counter, fscan.path)
           THEN production = 0 /\ test = fscan.loc
           ELSE production = fscan.loc /\ test = 0

\* C24: a Go, Java or Python file is never mixed: its result has production
\* count 0 or test count 0, and all its counted lines are reported as test
\* exactly when its name or path matches the profile's test rule, as
\* production otherwise.
C24_FileNeverMixed ==
    fscan.pc = "returned" => FileIsWhollyTestOrProduction

\* the same for files given by an absolute path
AbsoluteFilesNeverMixed ==
    (fscan.pc = "returned" /\ fscan.path.dirs[1] = "")
        => FileIsWhollyTestOrProduction

\* the same for Go files
GoFilesNeverMixed ==
    (fscan.pc = "returned" /\ fscan.counter = "go")
        => FileIsWhollyTestOrProduction

\* the files under the directory, at any depth, with the given extension
FilesUnder(directory, ext) ==
    {f \in measure.fs :
        /\ f.path.ext = ext
        /\ Len(f.path.dirs) >= Len(directory)
        /\ SubSeq(f.path.dirs, 1, Len(directory)) = directory}

\* the per-file result of a file: nothing when it cannot be read
PerFile(counter, f) ==
    IF f.readable THEN count_loc(counter, f) ELSE <<0, 0>>

\* the sum over a set of files of component k of the per-file results
RECURSIVE SumOfResults(_, _, _)
SumOfResults(files, counter, k) ==
    IF files = {} THEN 0
    ELSE LET f == CHOOSE f \in files : TRUE
         IN  PerFile(counter, f)[k] + SumOfResults(files \ {f}, counter, k)

\* the languages the classifier supports: extension and per-file counter
Supported ==
    [python |-> <<".py", "python">>, rust |-> <<".rs", "rust">>,
     java |-> <<".java", "java">>, go |-> <<".go", "go">>]

\* C25: measure_loc returns as production and test counts the sums of the
\* per-file results over all files under the directory, at any depth, whose
\* extension matches the language; an unreadable file adds 0 to both and the
\* scan goes on; a missing directory or an unsupported language gives
\* (0, 0, 0).
C25_DirectorySumsPerFileResults ==
    measure.pc = "returned" =>
        LET tag == lower(measure.language)
        IN  IF measure.directory = MissingDir \/ tag \notin DOMAIN Supported
            THEN measure.result = Some(<<0, 0, 0>>)
            ELSE LET files == FilesUnder(measure.directory, Supported[tag][1])
                     counter == Supported[tag][2]
                 IN  /\ measure.result[1][1]
                          = SumOfResults(files, counter, 1)
                     /\ measure.result[1][2]
                          = SumOfResults(files, counter, 2)

\* a directory with an unreadable file at the top and a readable one two
\* directories down: the scan returns the counts of the readable file
C25_Witness ==
    /\ measure.pc = "returned"
    /\ measure.language = "Python"
    /\ \E f, g \in measure.fs :
         /\ ~f.readable /\ f.path.ext = ".py"
         /\ g.readable /\ g.path.dirs = ProjectDir \o <<"pkg", "sub">>
    /\ measure.result = Some(<<1, 0, 2>>)

\* the total of a block is the sum of its two counts
TotalIsSum(metrics) ==
    metrics.total_loc = metrics.production_loc + metrics.test_loc

\* C26: in every code-metrics block of a Run Record, source and target, the
\* total line count is the production line count plus the test line count,
\* whichever operation filled the block.
C26_TotalIsProductionPlusTest ==
    /\ TotalIsSum(blocks.source_metrics)
    /\ TotalIsSum(blocks.target_metrics)

\* the same for the blocks filled by the collector's setters and by the
\* analyzer's Rust and Go operations
SettersRustAndGoTotalIsSum ==
    /\ blocks.source_by \in {"default", "record_source_loc"}
           => TotalIsSum(blocks.source_metrics)
    /\ blocks.target_by \in {"default", "record_target_loc",
                             "analyze_rust_target", "analyze_go_target"}
           => TotalIsSum(blocks.target_metrics)

\* a step of opening the store: only those change the database file's
\* bookkeeping
OpenStep == dbfile' # dbfile

\* C27: opening the store creates the schema when there is none, adds the
\* line_coverage_pct column when it is missing, changes nothing and raises
\* nothing when it is there, and never touches a stored row, however often
\* and from however many processes the store is opened
C27_OpenIsIdempotentAndNonDestructive ==
    [][OpenStep =>
          /\ table' = table
          /\ ~dbfile'.raised
          /\ dbfile.columns # None =>
                 dbfile.columns[1] \subseteq dbfile'.columns[1]
          /\ (dbfile.columns # None /\ AddedColumn \in dbfile.columns[1]) =>
                 dbfile'.columns = dbfile.columns
          /\ \A p \in Procs :
                 dbfile'.store[p].pc = "open" =>
                     dbfile'.columns = Some(SchemaColumns)]_vars

\* a database written before the column was introduced, holding rows, has
\* been opened by both processes at once and once more afterwards
C27_Witness ==
    /\ dbfile.initial = Some(V1Columns)
    /\ table # {}
    /\ dbfile.opens = MaxOpens
    /\ dbfile.columns = Some(SchemaColumns)
    /\ \A p \in Procs : dbfile.store[p].pc = "open"

\* the completed features of the checkpoint on disk, as load returns them
CompletedOnDisk == load[1].completed_features

\* the completed features of the checkpoint the step leaves on disk
CompletedAfter == CheckpointFromDict(ckpt'.file[1]).completed_features

\* no feature is in the list twice
NoDuplicate(features) ==
    \A i, j \in 1..Len(features) : features[i] = features[j] => i = j

\* one of the three marking calls has just run
MarkStep ==
    /\ ckpt' # ckpt
    /\ ckpt'.last.op \in {"mark_feature_started", "mark_feature_completed",
                          "mark_feature_failed"}

\* C28: after a marking call on an existing checkpoint completed_features
\* holds no feature twice, and the call has kept the list as it was or
\* appended one feature that was not in it (so the order of first completion
\* is kept and nothing is lost); without a checkpoint a marking call raises
\* and creates no file
C28_CompletedFeaturesGrowWithoutDuplicates ==
    [][MarkStep =>
          IF ckpt.file = None
          THEN /\ ckpt'.last.raised
               /\ ckpt'.file = None
               /\ ckpt'.dir = ckpt.dir
          ELSE /\ ~ckpt'.last.raised
               /\ ckpt'.file # None
               /\ NoDuplicate(CompletedAfter)
               /\ \/ CompletedAfter = CompletedOnDisk
                  \/ /\ ckpt'.last.op = "mark_feature_completed"
                     /\ CompletedAfter =
                            Append(CompletedOnDisk, ckpt'.last.feature)
                     /\ \A i \in 1..Len(CompletedOnDisk) :
                            CompletedOnDisk[i] # ckpt'.last.feature]_vars

\* a feature that was already completed has been marked completed again,
\* after another one was completed and after a call was refused for want of
\* a checkpoint
C28_Witness ==
    /\ ckpt.refused
    /\ ckpt.file # None
    /\ ckpt.last.op = "mark_feature_completed"
    /\ ckpt.last.repeated
    /\ CompletedOnDisk = <<"numbers", "addition">>
    /\ ckpt.last.feature = "numbers"

\* every content the table can have: rows the writing processes insert, one
\* per run id at most
WrittenTables ==
    {stored \in SUBSET {row_of(m) : m \in WriterRecords} :
        \A a, b \in stored : a.run_id = b.run_id => a = b}

\* C30: a result of aggregate describes one committed state of the store:
\* some set of rows gives the count, the means, the total cost and the
\* median and p95 of the result together
C30_AggregateDescribesOneState ==
    reader.pc = "returned" =>
        \E stored \in WrittenTables :
            reader.result = aggregate_over(stored, stored,
                                           reader.args[1].project,
                                           reader.args[1].target,
                                           reader.args[1].strategy)

====
